---- MODULE Spec2Model ----
(***************************************************************************)
(* Ingestion / reconciliation pipeline of parceldata:                      *)
(*   api/app/services/entity_resolution.py   score_match, classify_matches,*)
(*                                            resolve_from_candidates      *)
(*   api/app/services/ingestion/pipeline.py  IngestionPipeline             *)
(*   api/app/cli/import_data.py              import_region                 *)
(*                                                                         *)
(* Conventions.                                                            *)
(*   - An optional value (Python `X | None`) is a sequence of length 0     *)
(*     (None) or 1 (the value).                                            *)
(*   - A confidence is a rational in [0,1] kept as an integer number of    *)
(*     1/Scale units, so that the mean of up to three signals that are     *)
(*     multiples of 0.0001 is exact.                                       *)
(***************************************************************************)
EXTENDS Integers, Sequences, FiniteSets, TLC

\* classify_matches: the argument list of MatchCandidate
VARIABLE cm_candidates

\* classify_matches: Some(EntityResolutionResult) once it has returned
VARIABLE cm_result

\* score_match: Some([args, result]) once it has been called
VARIABLE sm_call

\* resolve_from_candidates: Some(arguments) once it has been called
VARIABLE rs_call

\* IngestionPipeline.process_record: the locals and position of the call
VARIABLE pr

\* import_region: its locals and position, and what it handed to the pipeline
VARIABLE ir

\* GeocodingService.geocode: the locals and position of the call, and the
\* provider calls it has made
VARIABLE gc

\* calculate_quality_score: Some([args, result]) once it has been called
VARIABLE qs

\* _score_timeliness: Some of the calls made, each with its result
VARIABLE tl

\* normalize: Some([raw, result]) once it has been called
VARIABLE nz

\* generate_property_id: Some of the two calls made and their results
VARIABLE gid

\* a record processed a second time: the first attempt's outcome
VARIABLE rt

\* the process_record calls in progress on one pipeline instance, and the
\* requests its geocoder's client has in flight
VARIABLE cc

\* one extract_property_data call followed by the scoring of its result
VARIABLE xd

\* the calls that are not part of process_record or import_region
aux == <<gc, qs, tl, nz, gid, rt, cc, xd>>

vars == <<cm_candidates, cm_result, sm_call, rs_call, pr, ir, gc, qs, tl, nz, gid, rt, cc, xd>>

---------------------------------------------------------------------------
(* Optional values *)

None == <<>>

Some(x) == <<x>>

IsNone(o) == o = <<>>

Val(o) == o[1]

---------------------------------------------------------------------------
(* Confidence arithmetic *)

\* 1.0 expressed in confidence units
Scale == 120000

\* a decimal given in hundredths, in confidence units
Pct(n) == (n * Scale) \div 100

\* entity_resolution.py:34-35
CONFIDENCE_AUTO_MERGE == Pct(90)

CONFIDENCE_REVIEW == Pct(70)

---------------------------------------------------------------------------
(* address.py: normalize.  usaddress.tag is an external parser: its answer *)
(* for each raw string of the model is tabulated in usaddress_tag, and     *)
(* normalize is the repository's code applied to that answer.  The values  *)
(* of a tag carry no surrounding white space.                              *)

\* the labels normalize reads, each "" when usaddress did not produce it
NoTags ==
    [AddressNumber |-> "", StreetNamePreDirectional |-> "",
     StreetNamePreModifier |-> "", StreetNamePreType |-> "",
     StreetName |-> "", StreetNamePostType |-> "",
     StreetNamePostDirectional |-> "", OccupancyType |-> "",
     OccupancyIdentifier |-> "", PlaceName |-> "", StateName |-> "",
     ZipCode |-> ""]

Tagged(number, name, posttype, place, statename, zip) ==
    [NoTags EXCEPT !.AddressNumber = number, !.StreetName = name,
                   !.StreetNamePostType = posttype, !.PlaceName = place,
                   !.StateName = statename, !.ZipCode = zip]

\* usaddress.tag(raw_address): ok = FALSE stands for RepeatedLabelError
usaddress_tag(raw) ==
    CASE raw = "123 Main Street, Austin, TX 78701" ->
             [ok |-> TRUE,
              parsed |-> Tagged("123", "Main", "Street", "Austin", "TX", "78701")]
      [] raw = "123 Main St Austin, TX 78701" ->
             [ok |-> TRUE,
              parsed |-> Tagged("123", "Main", "St", "Austin", "TX", "78701")]
      [] raw = "125 Main St Austin, TX 78701" ->
             [ok |-> TRUE,
              parsed |-> Tagged("125", "Main", "St", "Austin", "TX", "78701")]
      [] raw = "123 Main St Dallas, TX 75201" ->
             [ok |-> TRUE,
              parsed |-> Tagged("123", "Main", "St", "Dallas", "TX", "75201")]
      [] raw = "9 Oak Ave Dallas, TX 75201" ->
             [ok |-> TRUE,
              parsed |-> Tagged("9", "Oak", "Ave", "Dallas", "TX", "75201")]
      [] raw = "123 main st" ->
             [ok |-> TRUE, parsed |-> Tagged("123", "main", "st", "", "", "")]
      [] raw = "123 main St" ->
             [ok |-> TRUE, parsed |-> Tagged("123", "main", "St", "", "", "")]
      [] raw = "austin, texas 7870" ->
             [ok |-> TRUE, parsed |-> Tagged("", "", "", "austin", "texas", "7870")]
      [] raw = "123 Main St 123 Main St" ->
             [ok |-> FALSE, parsed |-> NoTags]
      [] OTHER -> [ok |-> TRUE, parsed |-> NoTags]

\* not raw_address or not raw_address.strip()
IsBlank(raw) == raw \in {"", "   "}

\* str.lower(), str.title() and str.upper() on the tokens of the model
StrLower(s) ==
    CASE s = "Street" -> "street" [] s = "St" -> "st" [] s = "Ave" -> "ave"
      [] OTHER -> s

StrTitle(s) ==
    CASE s = "austin" -> "Austin" [] s = "street" -> "Street"
      [] s = "st" -> "St" [] s = "ave" -> "Ave"
      [] OTHER -> s

StrUpper(s) ==
    CASE s = "texas" -> "TEXAS" [] OTHER -> s

\* str.isalpha() / the first five characters and their isdigit()
IsAlpha(s) == s \in {"TX", "TEXAS"}

First5(s) == CASE s = "78701-1234" -> "78701" [] OTHER -> s

IsDigit(s) == s \in {"78701", "75201", "7870"}

\* raw_zip[6:10]
Zip4Of(s) == CASE s = "78701-1234" -> "1234" [] OTHER -> ""

\* address.py:8-37, the entries for the suffixes of the model
STREET_SUFFIXES(raw_suffix) ==
    CASE raw_suffix \in {"street", "st"} -> "St"
      [] raw_suffix \in {"avenue", "ave"} -> "Ave"
      [] OTHER -> StrTitle(raw_suffix)

\* address.py:39-56
DIRECTIONALS(raw_direction) ==
    CASE raw_direction \in {"north", "n"} -> "N"
      [] raw_direction \in {"south", "s"} -> "S"
      [] OTHER -> StrUpper(raw_direction)

\* address.py:58-67
UNIT_TYPES(raw_unit_type) ==
    CASE raw_unit_type \in {"apartment", "apt", "#"} -> "Apt"
      [] raw_unit_type \in {"suite", "ste"} -> "Ste"
      [] OTHER -> StrTitle(raw_unit_type)

\* `x or None` for a string
OrNone(s) == IF s = "" THEN None ELSE Some(s)

\* " ".join(parts)
RECURSIVE JoinSp(_)
JoinSp(parts) ==
    IF parts = <<>> THEN ""
    ELSE IF Len(parts) = 1 THEN parts[1]
    ELSE parts[1] \o " " \o JoinSp(Tail(parts))

\* [p for p in parts if p] for optional strings
RECURSIVE Present(_)
Present(parts) ==
    IF parts = <<>> THEN <<>>
    ELSE IF IsNone(Head(parts)) THEN Present(Tail(parts))
    ELSE <<Val(Head(parts))>> \o Present(Tail(parts))

NormalizedAddress(number, name, suffix, direction, utype, unumber, city, state, zip, zip4, street, formatted, conf) ==
    [street_number |-> number, street_name |-> name, street_suffix |-> suffix,
     street_direction |-> direction, unit_type |-> utype,
     unit_number |-> unumber, city |-> city, state |-> state,
     zip_code |-> zip, zip4 |-> zip4, street_address |-> street,
     formatted_address |-> formatted, confidence |-> conf]

_empty_address ==
    NormalizedAddress(None, None, None, None, None, None, None, None, None,
                      None, None, None, 0)

\* street name (combine parts): address.py:132-143
StreetNameOf(parsed) ==
    OrNone(JoinSp(Present(<<OrNone(parsed.StreetNamePreDirectional),
                            OrNone(parsed.StreetNamePreModifier),
                            OrNone(parsed.StreetNamePreType),
                            OrNone(parsed.StreetName)>>)))

\* street suffix: address.py:145-151
StreetSuffixOf(parsed) ==
    IF StrLower(parsed.StreetNamePostType) # ""
    THEN Some(STREET_SUFFIXES(StrLower(parsed.StreetNamePostType)))
    ELSE None

\* direction: address.py:153-161
StreetDirectionOf(parsed) ==
    IF StrLower(parsed.StreetNamePostDirectional) # ""
    THEN Some(DIRECTIONALS(StrLower(parsed.StreetNamePostDirectional)))
    ELSE None

\* unit type: address.py:164-167
UnitTypeOf(parsed) ==
    IF StrLower(parsed.OccupancyType) # ""
    THEN Some(UNIT_TYPES(StrLower(parsed.OccupancyType)))
    ELSE None

\* state: address.py:172-173
StateOf(parsed) ==
    IF Len(StrUpper(parsed.StateName)) = 2 /\ IsAlpha(StrUpper(parsed.StateName))
    THEN Some(StrUpper(parsed.StateName))
    ELSE None

\* zip_code: address.py:175-176
ZipCodeOf(parsed) ==
    IF Len(parsed.ZipCode) >= 5 /\ IsDigit(First5(parsed.ZipCode))
    THEN Some(First5(parsed.ZipCode))
    ELSE None

\* zip4: address.py:177
Zip4CodeOf(parsed) ==
    IF Len(parsed.ZipCode) > 5 THEN Some(Zip4Of(parsed.ZipCode)) ELSE None

\* street_address: address.py:180-188
StreetAddressOf(number, name, suffix, direction, utype, unumber) ==
    LET street_parts ==
            Present(<<number, name, suffix>>)
                \o (IF ~IsNone(direction) THEN <<Val(direction)>> ELSE <<>>)
        base == JoinSp(street_parts)
    IN  IF base = "" THEN None
        ELSE IF ~IsNone(utype) /\ ~IsNone(unumber)
        THEN Some(base \o " " \o Val(utype) \o " " \o Val(unumber))
        ELSE Some(base)

\* the state part: formatted_parts[-1] += ","; formatted_parts.append(state)
WithState(parts, state) ==
    IF ~IsNone(state) /\ parts # <<>>
    THEN Append([parts EXCEPT ![Len(parts)] = @ \o ","], Val(state))
    ELSE parts

\* formatted_address: address.py:190-201
FormattedAddressOf(street_address, city, state, zip_code) ==
    OrNone(JoinSp(
        WithState(Present(<<street_address, city>>), state)
            \o Present(<<zip_code>>)))

\* weights that add up to more than one
AddressConfidenceHeavy(number, name, city, state, zip_code) ==
    (IF ~IsNone(number) THEN Pct(30) ELSE 0)
    + (IF ~IsNone(name) THEN Pct(30) ELSE 0)
    + (IF ~IsNone(city) THEN Pct(20) ELSE 0)
    + (IF ~IsNone(state) THEN Pct(20) ELSE 0)
    + (IF ~IsNone(zip_code) THEN Pct(10) ELSE 0)

\* confidence: address.py:203-214
AddressConfidence(number, name, city, state, zip_code) ==
    (IF ~IsNone(number) THEN Pct(20) ELSE 0)
    + (IF ~IsNone(name) THEN Pct(30) ELSE 0)
    + (IF ~IsNone(city) THEN Pct(20) ELSE 0)
    + (IF ~IsNone(state) THEN Pct(20) ELSE 0)
    + (IF ~IsNone(zip_code) THEN Pct(10) ELSE 0)

\* the derived fields, from the extracted components
Assemble(number, name, suffix, direction, utype, unumber, city, state, zip, zip4, street) ==
    NormalizedAddress(number, name, suffix, direction, utype, unumber, city,
                      state, zip, zip4, street,
                      FormattedAddressOf(street, city, state, zip),
                      AddressConfidence(number, name, city, state, zip))

\* address.py:129-230, the code after the parse
normalize_parsed(parsed) ==
    Assemble(OrNone(parsed.AddressNumber), StreetNameOf(parsed),
             StreetSuffixOf(parsed), StreetDirectionOf(parsed),
             UnitTypeOf(parsed), OrNone(parsed.OccupancyIdentifier),
             OrNone(StrTitle(parsed.PlaceName)), StateOf(parsed),
             ZipCodeOf(parsed), Zip4CodeOf(parsed),
             StreetAddressOf(OrNone(parsed.AddressNumber), StreetNameOf(parsed),
                             StreetSuffixOf(parsed), StreetDirectionOf(parsed),
                             UnitTypeOf(parsed),
                             OrNone(parsed.OccupancyIdentifier)))

\* address.py:108-127
normalize(raw_address) ==
    IF IsBlank(raw_address) THEN _empty_address
    ELSE IF ~usaddress_tag(raw_address).ok THEN _empty_address
    ELSE normalize_parsed(usaddress_tag(raw_address).parsed)

---------------------------------------------------------------------------
(* Bounds *)

\* longest candidate list handed to classify_matches
MaxCands == 6

\* confidences the classify_matches caller may put in a MatchCandidate:
\* both thresholds, the values next below them, and one on either side
CmConfidences == {0, CONFIDENCE_REVIEW - 1, CONFIDENCE_REVIEW,
                  CONFIDENCE_AUTO_MERGE - 1, CONFIDENCE_AUTO_MERGE, Pct(95)}

\* longest candidate list handed to resolve_from_candidates
MaxResolveCands == 3

\* candidate latitudes run over 0..MaxGrid grid steps
MaxGrid == 5

\* longest candidate list handed to process_record
MaxExisting == 2

\* longest provider stream handed to import_region
MaxStream == 3

\* the longest candidate list of a record that is processed twice
MaxRetryCands == 1

\* process_record calls in progress at the same time on one pipeline
MaxCalls == 2

\* property ids of the candidates of a classify_matches call, by position
CmIds == <<"p1", "p2", "p3", "p4", "p5", "p6", "p7", "p8">>

---------------------------------------------------------------------------
(* entity_resolution.py: classify_matches *)

MatchCandidate(pid, conf, mtype, fields) ==
    [property_id |-> pid, confidence |-> conf, match_type |-> mtype,
     matched_fields |-> fields]

EntityResolutionResult(cid, conf, ms, act) ==
    [canonical_id |-> cid, confidence |-> conf, matches |-> ms, action |-> act]

\* Position at which x goes into the descending list s so that it follows
\* every element whose confidence is >= its own (sorted() is stable, and
\* reverse=True keeps the input order of equal keys).
RECURSIVE InsertDesc(_, _)
InsertDesc(s, x) ==
    IF s = <<>> THEN <<x>>
    ELSE IF Head(s).confidence >= x.confidence
         THEN <<Head(s)>> \o InsertDesc(Tail(s), x)
         ELSE <<x>> \o s

\* a sort that is not stable: equal keys come out in reverse input order
RECURSIVE InsertDescUnstable(_, _)
InsertDescUnstable(s, x) ==
    IF s = <<>> THEN <<x>>
    ELSE IF Head(s).confidence > x.confidence
         THEN <<Head(s)>> \o InsertDescUnstable(Tail(s), x)
         ELSE <<x>> \o s

RECURSIVE SortedUnstable(_)
SortedUnstable(candidates) ==
    IF candidates = <<>> THEN <<>>
    ELSE InsertDescUnstable(
             SortedUnstable(SubSeq(candidates, 1, Len(candidates) - 1)),
             candidates[Len(candidates)])

\* sorted(candidates, key=lambda x: x.confidence, reverse=True)
RECURSIVE sorted_candidates(_)
sorted_candidates(candidates) ==
    IF candidates = <<>> THEN <<>>
    ELSE InsertDesc(
             sorted_candidates(SubSeq(candidates, 1, Len(candidates) - 1)),
             candidates[Len(candidates)])

\* the thresholds with the auto-merge comparison made strict
ActionOfStrict(confidence) ==
    IF confidence > CONFIDENCE_AUTO_MERGE THEN "auto_merge"
    ELSE IF confidence >= CONFIDENCE_REVIEW THEN "review"
    ELSE "keep_separate"

\* the if / elif / else over best.confidence
ActionOf(confidence) ==
    IF confidence >= CONFIDENCE_AUTO_MERGE THEN "auto_merge"
    ELSE IF confidence >= CONFIDENCE_REVIEW THEN "review"
    ELSE "keep_separate"

\* the slice forgotten
Top5All(s) == s

\* sorted_candidates[:5]
Top5(s) == SubSeq(s, 1, IF Len(s) < 5 THEN Len(s) ELSE 5)

classify_matches(candidates) ==
    IF candidates = <<>>
    THEN EntityResolutionResult(None, 0, <<>>, "keep_separate")
    ELSE LET sorted == sorted_candidates(candidates)
             best   == sorted[1]
             action == ActionOf(best.confidence)
         IN  EntityResolutionResult(
                 IF action = "auto_merge" THEN Some(best.property_id) ELSE None,
                 best.confidence,
                 Top5(sorted),
                 action)

---------------------------------------------------------------------------
(* entity_resolution.py: haversine_distance, score_address_similarity,     *)
(* score_match, resolve_from_candidates                                    *)

\* Coordinates of the model are whole numbers of grid steps from a reference
\* point, one step being the angle that subtends GridMetres on the sphere of
\* radius 6371000 m; over the few steps used the great-circle distance is
\* the planar one, and it is kept squared (square metres).
GridMetres == 10

haversine_distance_sq(lat1, lon1, lat2, lon2) ==
    GridMetres * GridMetres
        * ((lat2 - lat1) * (lat2 - lat1) + (lon2 - lon1) * (lon2 - lon1))

\* distance < metres
DistanceBelow(distance_sq, metres) == distance_sq < metres * metres

\* str.lower() of a formatted address
FormattedLower(f) ==
    CASE f = "123 Main St Austin, TX 78701" -> "123 main st austin, tx 78701"
      [] f = "125 Main St Austin, TX 78701" -> "125 main st austin, tx 78701"
      [] f = "123 Main St Dallas, TX 75201" -> "123 main st dallas, tx 75201"
      [] f = "9 Oak Ave Dallas, TX 75201" -> "9 oak ave dallas, tx 75201"
      [] f = "123 main St" -> "123 main st"
      [] f = "Austin" -> "austin"

\* jellyfish.jaro_winkler_similarity on the lower-cased formatted addresses
\* of the model, in 1/10000 (the standard formula, truncated)
JaroWinkler10000(a, b) ==
    LET p == {a, b} IN
    CASE a = b -> 10000
      [] p = {"123 main st austin, tx 78701", "125 main st austin, tx 78701"} -> 9809
      [] p = {"123 main st austin, tx 78701", "123 main st dallas, tx 75201"} -> 9051
      [] p = {"123 main st austin, tx 78701", "9 oak ave dallas, tx 75201"} -> 6080
      [] p = {"123 main st austin, tx 78701", "123 main st"} -> 8785
      [] p = {"123 main st austin, tx 78701", "austin"} -> 6269
      [] p = {"125 main st austin, tx 78701", "123 main st dallas, tx 75201"} -> 8539
      [] p = {"125 main st austin, tx 78701", "9 oak ave dallas, tx 75201"} -> 6080
      [] p = {"125 main st austin, tx 78701", "123 main st"} -> 8043
      [] p = {"125 main st austin, tx 78701", "austin"} -> 6269
      [] p = {"123 main st dallas, tx 75201", "9 oak ave dallas, tx 75201"} -> 7611
      [] p = {"123 main st dallas, tx 75201", "123 main st"} -> 8785
      [] p = {"123 main st dallas, tx 75201", "austin"} -> 5373
      [] p = {"9 oak ave dallas, tx 75201", "123 main st"} -> 5489
      [] p = {"9 oak ave dallas, tx 75201", "austin"} -> 4017
      [] p = {"123 main st", "austin"} -> 5050

score_address_similarity(addr1, addr2) ==
    LET norm1 == normalize(addr1)
        norm2 == normalize(addr2)
    IN  IF IsNone(norm1.formatted_address) \/ IsNone(norm2.formatted_address)
        THEN 0
        ELSE JaroWinkler10000(FormattedLower(Val(norm1.formatted_address)),
                              FormattedLower(Val(norm2.formatted_address)))
                 * (Scale \div 10000)

\* truth value of an optional string: neither None nor ""
Truthy(o) == ~IsNone(o) /\ Val(o) # ""

RECURSIVE SumSeq(_)
SumSeq(s) == IF s = <<>> THEN 0 ELSE Head(s) + SumSeq(Tail(s))

\* a parcel-id signal that is worth 0.90
ParcelSignalDiscounted(input_parcel_id, candidate_apn) ==
    IF Truthy(input_parcel_id) /\ Truthy(candidate_apn)
       /\ Val(input_parcel_id) = Val(candidate_apn)
    THEN <<[field |-> "parcel_id", score |-> Pct(90)]>>
    ELSE <<>>

\* the parcel-id signal: entity_resolution.py:134-136
ParcelSignal(input_parcel_id, candidate_apn) ==
    IF Truthy(input_parcel_id) /\ Truthy(candidate_apn)
       /\ Val(input_parcel_id) = Val(candidate_apn)
    THEN <<[field |-> "parcel_id", score |-> Scale]>>
    ELSE <<>>

\* the address signal with the comparison made non-strict and lowered
AddressSignalLoose(input_address, candidate_address) ==
    IF Truthy(input_address) /\ Truthy(candidate_address)
    THEN LET sim == score_address_similarity(Val(input_address),
                                             Val(candidate_address))
         IN  IF sim >= Pct(80) THEN <<[field |-> "address", score |-> sim]>>
             ELSE <<>>
    ELSE <<>>

\* an address signal that fires for every pair of addresses
AddressSignalAlways(input_address, candidate_address) ==
    IF Truthy(input_address) /\ Truthy(candidate_address)
    THEN <<[field |-> "address",
            score |-> score_address_similarity(Val(input_address),
                                               Val(candidate_address))]>>
    ELSE <<>>

\* the address signal: entity_resolution.py:139-143
AddressSignal(input_address, candidate_address) ==
    IF Truthy(input_address) /\ Truthy(candidate_address)
    THEN LET sim == score_address_similarity(Val(input_address),
                                             Val(candidate_address))
         IN  IF sim > Pct(85) THEN <<[field |-> "address", score |-> sim]>>
             ELSE <<>>
    ELSE <<>>

\* the location signal with `<` written `<=`
LocationSignalInclusive(input_lat, input_lng, candidate_lat, candidate_lng) ==
    IF ~IsNone(input_lat) /\ ~IsNone(input_lng)
       /\ ~IsNone(candidate_lat) /\ ~IsNone(candidate_lng)
    THEN LET distance == haversine_distance_sq(Val(input_lat), Val(input_lng),
                             Val(candidate_lat), Val(candidate_lng))
         IN  IF ~DistanceBelow(distance, 10) /\ distance # 10 * 10
             THEN IF DistanceBelow(distance, 50) \/ distance = 50 * 50
                  THEN <<[field |-> "location", score |-> Pct(80)]>>
                  ELSE <<>>
             ELSE <<[field |-> "location", score |-> Pct(95)]>>
    ELSE <<>>

\* the location signal: entity_resolution.py:146-160
LocationSignal(input_lat, input_lng, candidate_lat, candidate_lng) ==
    IF ~IsNone(input_lat) /\ ~IsNone(input_lng)
       /\ ~IsNone(candidate_lat) /\ ~IsNone(candidate_lng)
    THEN LET distance == haversine_distance_sq(Val(input_lat), Val(input_lng),
                             Val(candidate_lat), Val(candidate_lng))
         IN  IF DistanceBelow(distance, 10)
             THEN <<[field |-> "location", score |-> Pct(95)]>>
             ELSE IF DistanceBelow(distance, 50)
                  THEN <<[field |-> "location", score |-> Pct(80)]>>
                  ELSE <<>>
    ELSE <<>>

\* sum(scores) / len(scores) if scores else 0.0, with the divisor fixed at 3
MeanOfThree(scores) == IF scores = <<>> THEN 0 ELSE SumSeq(scores) \div 3

\* sum(scores) / len(scores) if scores else 0.0
Mean(scores) == IF scores = <<>> THEN 0 ELSE SumSeq(scores) \div Len(scores)

score_match(input_address, input_lat, input_lng, input_parcel_id, candidate_id, candidate_address, candidate_lat, candidate_lng, candidate_apn, match_type) ==
    LET fired == ParcelSignal(input_parcel_id, candidate_apn)
                 \o AddressSignal(input_address, candidate_address)
                 \o LocationSignal(input_lat, input_lng,
                                   candidate_lat, candidate_lng)
        matched_fields == [i \in 1..Len(fired) |-> fired[i].field]
        scores == [i \in 1..Len(fired) |-> fired[i].score]
    IN  MatchCandidate(candidate_id, Mean(scores), match_type, matched_fields)

\* A candidate dict: every key is optional; id, address, apn and match_type
\* hold strings, latitude and longitude hold numbers.
Candidate(id, address, latitude, longitude, apn, match_type) ==
    [id |-> id, address |-> address, latitude |-> latitude,
     longitude |-> longitude, apn |-> apn, match_type |-> match_type]

\* str(cand.get(key, default))
GetStr(o, default) == IF IsNone(o) THEN default ELSE Val(o)

\* the score_match call of the loop body: entity_resolution.py:240-259
ScoreCandidate(address, lat, lng, parcel_id, cand) ==
    score_match(address, lat, lng, parcel_id,
                GetStr(cand.id, ""),
                IF Truthy(cand.address) THEN cand.address ELSE None,
                cand.latitude,
                cand.longitude,
                IF Truthy(cand.apn) THEN cand.apn ELSE None,
                GetStr(cand.match_type, "unknown"))

\* the filter dropped: every scored candidate is kept
KeepAll(match) == TRUE

\* if match.confidence > 0.3
Keep(match) == match.confidence > Pct(30)

\* the loop: entity_resolution.py:237-261
RECURSIVE Scored(_, _, _, _, _)
Scored(address, lat, lng, parcel_id, candidates) ==
    IF candidates = <<>> THEN <<>>
    ELSE LET match == ScoreCandidate(address, lat, lng, parcel_id,
                                     Head(candidates))
         IN  (IF Keep(match) THEN <<match>> ELSE <<>>)
                 \o Scored(address, lat, lng, parcel_id, Tail(candidates))

resolve_from_candidates(address, lat, lng, parcel_id, candidates) ==
    classify_matches(Scored(address, lat, lng, parcel_id, candidates))

---------------------------------------------------------------------------
(* geocoding.py: GeocodingService.  A provider's HTTP exchange is an input: *)
(* its kind says where the provider method's try body ends up, and a       *)
(* "match" carries the coordinates of the payload.                         *)

ProviderResponse(kind, lat, lng) == [kind |-> kind, lat |-> lat, lng |-> lng]

GeocodingResult(lat, lng, accuracy, source, conf) ==
    [latitude |-> lat, longitude |-> lng, accuracy |-> accuracy,
     source |-> source, confidence |-> conf]

\* what the body of a provider method ends in: an exception or a return value
ProviderOutcome(raised, result) == [raised |-> raised, result |-> result]

\* exchanges on which the Census try body raises: client.get (network error,
\* timeout), raise_for_status (non-2xx), response.json() (not JSON) and
\* data.get on a payload that is not an object
CensusRaises ==
    {"network_error", "timeout", "http_status", "not_json", "not_object"}

\* payloads on which the Census try body returns None: geocoding.py:87-108
CensusNoResult ==
    {"no_result", "no_matches", "bad_match", "bad_coordinates", "non_numeric"}

\* exchanges on which the Nominatim try body raises: as for Census, and
\* results[0] on an object or float(str(lat)) on a string that is no number
NominatimRaises ==
    {"network_error", "timeout", "http_status", "not_json", "not_list",
     "unparsable"}

\* payloads on which the Nominatim try body returns None: geocoding.py:140-147
NominatimNoResult == {"empty", "missing_lat", "missing_lon"}

\* the try body of _census_geocode: geocoding.py:76-116
CensusBody(response) ==
    IF response.kind \in CensusRaises THEN ProviderOutcome(TRUE, None)
    ELSE IF response.kind \in CensusNoResult THEN ProviderOutcome(FALSE, None)
    ELSE ProviderOutcome(FALSE, Some(GeocodingResult(response.lat, response.lng, "rooftop", "census", Pct(95))))

\* the try body of _nominatim_geocode: geocoding.py:126-155
NominatimBody(response) ==
    IF response.kind \in NominatimRaises THEN ProviderOutcome(TRUE, None)
    ELSE IF response.kind \in NominatimNoResult THEN ProviderOutcome(FALSE, None)
    ELSE ProviderOutcome(FALSE, Some(GeocodingResult(response.lat, response.lng, "street", "nominatim", Pct(80))))

\* a provider method without its except clause
Propagated(outcome) == outcome

\* except Exception: ... return None: geocoding.py:117-119, 156-158
Caught(outcome) ==
    IF outcome.raised THEN ProviderOutcome(FALSE, None) ELSE outcome

\* geocoding.py:71-119
_census_geocode(response) == Caught(CensusBody(response)).result

\* geocoding.py:121-158
_nominatim_geocode(response) == Caught(NominatimBody(response)).result

\* geocoding.py:33-69
geocode(census_response, nominatim_response) ==
    IF ~IsNone(_census_geocode(census_response))
    THEN _census_geocode(census_response)
    ELSE _nominatim_geocode(nominatim_response)

\* what the two geocoding providers may answer
CensusResponses ==
    {ProviderResponse(k, 0, 0) : k \in CensusRaises \cup CensusNoResult}
        \cup {ProviderResponse("match", 0, 0)}

NominatimResponses ==
    {ProviderResponse(k, 0, 0) : k \in NominatimRaises \cup NominatimNoResult}
        \cup {ProviderResponse("match", 1, 0)}

\* full_address: geocoding.py:51-57
FullAddress(address, city, state, zip_code) ==
    address \o (IF Truthy(city) THEN ", " \o Val(city) ELSE "")
            \o (IF Truthy(state) THEN ", " \o Val(state) ELSE "")
            \o (IF Truthy(zip_code) THEN " " \o Val(zip_code) ELSE "")

\* the locals of a geocode call, the provider calls made so far (name and
\* address queried) and the exchanges they saw
GCIdle ==
    [pc |-> "idle", full_address |-> "", calls |-> <<>>, exchanges |-> <<>>,
     result |-> None, ret |-> None, raised |-> FALSE]

\* geocoding.py:33-57
GcEntered(address, city, state, zip_code) ==
    [GCIdle EXCEPT !.pc = "census",
                   !.full_address = FullAddress(address, city, state, zip_code)]

\* a geocode that asks Nominatim whatever Census answered
CensusNeverWins(result) == FALSE

\* if result: return result   (geocoding.py:61-62)
CensusWins(result) == ~IsNone(result)

\* the caller's side of an awaited provider method: an exception leaves
\* geocode at once, a value is bound to result
Awaited(g, name, exchange, outcome) ==
    [g EXCEPT !.calls = Append(g.calls, <<name, g.full_address>>),
              !.exchanges = Append(g.exchanges, exchange),
              !.result = outcome.result,
              !.raised = outcome.raised]

\* geocoding.py:60-62
AfterCensus(g, outcome) ==
    [g EXCEPT !.pc = IF outcome.raised \/ CensusWins(outcome.result)
                     THEN "returned" ELSE "nominatim",
              !.ret = IF outcome.raised THEN None ELSE outcome.result]

\* geocoding.py:65-69
AfterNominatim(g, outcome) ==
    [g EXCEPT !.pc = "returned",
              !.ret = IF outcome.raised THEN None ELSE outcome.result]

---------------------------------------------------------------------------
(* quality.py: calculate_quality_score.  A payload value is a string or a  *)
(* number; scores are in 1/Scale units.                                    *)

StrV(s) == [t |-> "str", s |-> s, n |-> 0]

NumV(n) == [t |-> "num", s |-> "", n |-> n]

\* truth value of an optional payload value
TruthyV(o) == ~IsNone(o) /\ (IF Val(o).t = "str" THEN Val(o).s # "" ELSE Val(o).n # 0)

IsStr(o) == ~IsNone(o) /\ Val(o).t = "str"

\* isinstance(x, (int, float)), and isinstance(x, int): numbers are whole
IsNum(o) == ~IsNone(o) /\ Val(o).t = "num"

\* dict.get(key)
Get(data, key) == IF key \in DOMAIN data THEN data[key] ELSE None

\* quality.py:8-17
REQUIRED_FIELDS ==
    <<"address", "city", "state", "zip_code", "latitude", "longitude",
      "lot_sqft", "property_type">>

\* quality.py:19-28
OPTIONAL_FIELDS ==
    <<"bedrooms", "bathrooms", "sqft", "year_built", "assessed_value",
      "estimated_value", "zoning", "owner_name">>

CountPresent(data, fields) ==
    Cardinality({i \in 1..Len(fields) : ~IsNone(Get(data, fields[i]))})

\* quality.py:102-114
_score_completeness(data) ==
    (CountPresent(data, REQUIRED_FIELDS) * Pct(70)) \div Len(REQUIRED_FIELDS)
    + (CountPresent(data, OPTIONAL_FIELDS) * Pct(30)) \div Len(OPTIONAL_FIELDS)

\* the four format checks of _score_accuracy, each a list of 0 or 1 scores
ZipCheck(zip_code) ==
    IF IsStr(zip_code) /\ Val(zip_code).s # ""
    THEN <<IF Len(Val(zip_code).s) = 5 /\ IsDigit(Val(zip_code).s)
           THEN Scale ELSE Pct(50)>>
    ELSE <<>>

StateCheck(state) ==
    IF IsStr(state) /\ Val(state).s # ""
    THEN <<IF Len(Val(state).s) = 2 /\ IsAlpha(Val(state).s)
           THEN Scale ELSE Pct(50)>>
    ELSE <<>>

YearCheck(year_built) ==
    IF IsNum(year_built)
    THEN <<IF 1800 <= Val(year_built).n /\ Val(year_built).n <= 2030
           THEN Scale ELSE Pct(50)>>
    ELSE <<>>

CoordCheck(lat, lng) ==
    IF IsNum(lat) /\ IsNum(lng)
    THEN <<IF -90 <= Val(lat).n /\ Val(lat).n <= 90
              /\ -180 <= Val(lng).n /\ Val(lng).n <= 180
           THEN Scale ELSE 0>>
    ELSE <<>>

\* sum(checks) / len(checks) if checks else default
MeanOr(checks, default) ==
    IF checks = <<>> THEN default ELSE SumSeq(checks) \div Len(checks)

\* quality.py:117-151
_score_accuracy(data) ==
    MeanOr(ZipCheck(Get(data, "zip_code")) \o StateCheck(Get(data, "state"))
               \o YearCheck(Get(data, "year_built"))
               \o CoordCheck(Get(data, "latitude"), Get(data, "longitude")),
           Pct(80))

PositiveNum(o) == IsNum(o) /\ Val(o).n > 0

LotCheck(lot_sqft, building_sqft) ==
    IF PositiveNum(lot_sqft) /\ PositiveNum(building_sqft)
    THEN <<IF Val(lot_sqft).n >= Val(building_sqft).n THEN Scale ELSE Pct(50)>>
    ELSE <<>>

\* ppsf = assessed / building_sqft; 50 <= ppsf <= 2000
PriceCheck(assessed, building_sqft) ==
    IF PositiveNum(assessed) /\ PositiveNum(building_sqft)
    THEN <<IF 50 * Val(building_sqft).n <= Val(assessed).n
              /\ Val(assessed).n <= 2000 * Val(building_sqft).n
           THEN Scale ELSE Pct(70)>>
    ELSE <<>>

\* quality.py:154-181
_score_consistency(data) ==
    MeanOr(LotCheck(Get(data, "lot_sqft"), Get(data, "sqft"))
               \o PriceCheck(Get(data, "assessed_value"), Get(data, "sqft")),
           Pct(85))

\* datetime.utcnow(), in minutes on the model's clock
UtcNow == 0

\* int(x / y) for y > 0: the quotient truncated toward zero
TruncDiv(x, y) == IF x >= 0 THEN x \div y ELSE -((-x) \div y)

\* buckets that take the boundary hour into the fresher bucket
TimelinessInclusive(freshness_hours) ==
    IF freshness_hours <= 24 THEN Scale
    ELSE IF freshness_hours <= 168 THEN Pct(90)
    ELSE IF freshness_hours <= 720 THEN Pct(80)
    ELSE IF freshness_hours <= 2160 THEN Pct(70)
    ELSE Pct(50)

\* quality.py:198-207
TimelinessOf(freshness_hours) ==
    IF freshness_hours < 24 THEN Scale
    ELSE IF freshness_hours < 168 THEN Pct(90)
    ELSE IF freshness_hours < 720 THEN Pct(80)
    ELSE IF freshness_hours < 2160 THEN Pct(70)
    ELSE Pct(50)

\* quality.py:184-209; the timestamp is an optional number of minutes
_score_timeliness(source_timestamp) ==
    IF IsNone(source_timestamp)
    THEN [score |-> Pct(70), freshness_hours |-> 0]
    ELSE [score |-> TimelinessOf(TruncDiv(UtcNow - Val(source_timestamp), 60)),
          freshness_hours |-> TruncDiv(UtcNow - Val(source_timestamp), 60)]

\* quality.py:212-214
_score_validity == Pct(95)

\* round(x, 3): to the nearest 1/1000, a tie going to the even neighbour
Round3(x) ==
    LET unit == Scale \div 1000
        q == x \div unit
        r == x % unit
    IN  IF 2 * r < unit THEN q * unit
        ELSE IF 2 * r > unit THEN (q + 1) * unit
        ELSE IF q % 2 = 0 THEN q * unit ELSE (q + 1) * unit

\* quality.py:73-80
WeightedScore(completeness, accuracy, consistency, timeliness, validity, uniqueness) ==
    (completeness * 25 + accuracy * 25 + consistency * 20 + timeliness * 15
         + validity * 10 + uniqueness * 5) \div 100

\* quality.py:82-87
ConfidenceLabel(score) ==
    IF score >= Pct(85) THEN "high"
    ELSE IF score >= Pct(70) THEN "medium"
    ELSE "low"

DataQualityScore(score, completeness, accuracy, consistency, timeliness, validity, uniqueness, freshness_hours, confidence) ==
    [score |-> score, completeness |-> completeness, accuracy |-> accuracy,
     consistency |-> consistency, timeliness |-> timeliness,
     validity |-> validity, uniqueness |-> uniqueness,
     freshness_hours |-> freshness_hours, confidence |-> confidence]

\* quality.py:89-99, from the unrounded components
QualityOf(completeness, accuracy, consistency, timely, validity, uniqueness) ==
    DataQualityScore(
        Round3(WeightedScore(completeness, accuracy, consistency, timely.score,
                             validity, uniqueness)),
        Round3(completeness), Round3(accuracy), Round3(consistency),
        Round3(timely.score), Round3(validity), Round3(uniqueness),
        timely.freshness_hours,
        ConfidenceLabel(WeightedScore(completeness, accuracy, consistency,
                                      timely.score, validity, uniqueness)))

\* quality.py:46-99
calculate_quality_score(property_data, source_timestamp, duplicate_check) ==
    QualityOf(_score_completeness(property_data),
              _score_accuracy(property_data),
              _score_consistency(property_data),
              _score_timeliness(source_timestamp),
              _score_validity,
              IF ~duplicate_check THEN Scale ELSE Pct(95))

---------------------------------------------------------------------------
(* ingestion/base.py and ingestion/pipeline.py *)

RawPropertyRecord(source_system, source_record_id, extraction_timestamp, raw_data, parcel_id, address_raw, latitude, longitude) ==
    [source_system |-> source_system, source_type |-> "parcel_data",
     source_record_id |-> source_record_id,
     extraction_timestamp |-> extraction_timestamp, raw_data |-> raw_data,
     parcel_id |-> parcel_id, address_raw |-> address_raw,
     latitude |-> latitude, longitude |-> longitude]

\* a or b on optional payload values
OrV(a, b) == IF TruthyV(a) THEN a ELSE b

\* pipeline.py:194-220
extract_property_data(raw_data) ==
    [address |-> Get(raw_data, "address"),
     city |-> Get(raw_data, "city"),
     state |-> Get(raw_data, "state"),
     zip_code |-> OrV(Get(raw_data, "zip"), Get(raw_data, "zip_code")),
     latitude |-> OrV(Get(raw_data, "lat"), Get(raw_data, "latitude")),
     longitude |-> OrV(Get(raw_data, "lng"), Get(raw_data, "longitude")),
     lot_sqft |-> Get(raw_data, "lot_sqft"),
     property_type |-> Get(raw_data, "property_type"),
     bedrooms |-> Get(raw_data, "bedrooms"),
     bathrooms |-> Get(raw_data, "bathrooms"),
     sqft |-> Get(raw_data, "sqft"),
     year_built |-> Get(raw_data, "year_built"),
     assessed_value |-> Get(raw_data, "assessed_value")]

\* hashlib.md5(key.encode()).hexdigest()[:10].upper() for the keys of the model
Md5Hex10Upper(key) ==
    CASE key = "P1" -> "5F2B9323C3"
      [] key = "P2" -> "5890595E16"
      [] key = "regrid:r1" -> "65E98329B6"
      [] key = "regrid:r2" -> "A9EBA6A3FF"
      [] key = "attom:r1" -> "A48636E56A"
      [] key = "attom:r2" -> "DEBCEC0DBD"
      [] key = "" -> "D41D8CD98F"

\* a hash input that prefers the source tuple to the parcel id
HashInputSourceFirst(raw) ==
    IF raw.source_system \o ":" \o raw.source_record_id # ":"
    THEN raw.source_system \o ":" \o raw.source_record_id
    ELSE GetStr(raw.parcel_id, "")

\* hash_input = raw.parcel_id or f"{source_system}:{source_record_id}"
HashInput(raw) ==
    IF Truthy(raw.parcel_id) THEN Val(raw.parcel_id)
    ELSE raw.source_system \o ":" \o raw.source_record_id

\* state = "XX"; if address and address.state: state = address.state
IdState(address) ==
    IF ~IsNone(address) /\ Truthy(Val(address).state)
    THEN Val(Val(address).state) ELSE "XX"

\* pipeline.py:161-191; address is an optional NormalizedAddress
generate_property_id(raw, address) ==
    IdState(address) \o "-" \o Md5Hex10Upper(HashInput(raw))

ProcessedRecord(property_id, raw, address, latitude, longitude, quality, canonical_id, entity_confidence) ==
    [property_id |-> property_id, source_system |-> raw.source_system,
     source_type |-> raw.source_type,
     source_record_id |-> raw.source_record_id, address |-> address,
     latitude |-> latitude, longitude |-> longitude, quality |-> quality,
     canonical_id |-> canonical_id, entity_confidence |-> entity_confidence,
     raw_data |-> raw.raw_data,
     extraction_timestamp |-> raw.extraction_timestamp]

---------------------------------------------------------------------------
(* Callers of the entity resolver.  Each behaviour is one call of one      *)
(* entry point: classify_matches on a list the caller assembled,           *)
(* resolve_from_candidates on candidate dicts, or score_match alone.       *)

CmAppend ==
    /\ IsNone(cm_result)
    /\ IsNone(rs_call)
    /\ Len(cm_candidates) < MaxCands
    /\ \E c \in CmConfidences :
           cm_candidates' = Append(cm_candidates,
               MatchCandidate(CmIds[Len(cm_candidates) + 1], c, "fuzzy", <<>>))
    /\ UNCHANGED <<cm_result, sm_call, rs_call, pr, ir, aux>>

CmClassify ==
    /\ IsNone(cm_result)
    /\ cm_result' = Some(classify_matches(cm_candidates))
    /\ UNCHANGED <<cm_candidates, sm_call, rs_call, pr, ir, aux>>

\* arguments of a direct score_match call
SmInputAddresses ==
    {None, Some(""), Some("123 Main St Austin, TX 78701"), Some("123 main st")}

SmCandidateAddresses ==
    {None, Some(""), Some("123 Main St Austin, TX 78701"),
     Some("125 Main St Austin, TX 78701"), Some("123 Main St Dallas, TX 75201"),
     Some("9 Oak Ave Dallas, TX 75201")}

SmInputCoords == {None, Some(0)}

SmCandidateLats == {None} \cup {Some(n) : n \in 0..MaxGrid}

SmCandidateLngs == {None, Some(0), Some(4)}

SmInputParcels == {None, Some(""), Some("P1")}

SmCandidateApns == {None, Some(""), Some("P1"), Some("P2")}

ScoreMatchCall ==
    /\ IsNone(sm_call)
    /\ \E ia \in SmInputAddresses, ilat \in SmInputCoords,
          ilng \in SmInputCoords, ip \in SmInputParcels,
          ca \in SmCandidateAddresses, clat \in SmCandidateLats,
          clng \in SmCandidateLngs, capn \in SmCandidateApns :
           sm_call' = Some(
               [input_address |-> ia, input_lat |-> ilat, input_lng |-> ilng,
                input_parcel_id |-> ip, candidate_address |-> ca,
                candidate_lat |-> clat, candidate_lng |-> clng,
                candidate_apn |-> capn,
                result |-> score_match(ia, ilat, ilng, ip, "c1", ca, clat,
                                       clng, capn, "fuzzy")])
    /\ UNCHANGED <<cm_candidates, cm_result, rs_call, pr, ir, aux>>

\* the candidate dicts a caller of resolve_from_candidates may supply
CandidatePool ==
    { Candidate(Some("e1"), Some("123 Main St Austin, TX 78701"), Some(0),
                Some(0), Some("P1"), Some("parcel_id")),
      Candidate(Some("e2"), Some("123 Main St Austin, TX 78701"), Some(0),
                Some(0), Some("P1"), Some("parcel_id")),
      Candidate(None, None, None, None, Some("P1"), None),
      Candidate(Some("e3"), None, Some(1), Some(0), None, Some("geocode")),
      Candidate(Some("e4"), Some("125 Main St Austin, TX 78701"), Some(3),
                Some(0), Some("P2"), Some("fuzzy")),
      Candidate(Some("e5"), Some("9 Oak Ave Dallas, TX 75201"), Some(5),
                Some(0), None, Some("geocode")) }

\* all lists over S of length at most n
RECURSIVE SeqsUpTo(_, _)
SeqsUpTo(S, n) ==
    IF n = 0 THEN {<<>>}
    ELSE LET shorter == SeqsUpTo(S, n - 1)
         IN  shorter \cup {Append(q, x) : q \in shorter, x \in S}

RsAddresses == {None, Some("123 Main St Austin, TX 78701")}

RsCoords == {None, Some(0)}

RsParcels == {None, Some("P1")}

ResolveCall ==
    /\ IsNone(rs_call)
    /\ IsNone(cm_result)
    /\ cm_candidates = <<>>
    /\ \E a \in RsAddresses, la \in RsCoords, ln \in RsCoords,
          pid \in RsParcels,
          cands \in SeqsUpTo(CandidatePool, MaxResolveCands) :
           /\ rs_call' = Some([address |-> a, lat |-> la, lng |-> ln,
                               parcel_id |-> pid, candidates |-> cands])
           /\ cm_candidates' = Scored(a, la, ln, pid, cands)
           /\ cm_result' = Some(resolve_from_candidates(a, la, ln, pid, cands))
    /\ UNCHANGED <<sm_call, pr, ir, aux>>

\* the state before any call
PRIdle ==
    [pc |-> "idle", raw |-> None, existing_candidates |-> None,
     address |-> None, lat |-> None, lng |-> None, entity_result |-> None,
     canonical_id |-> None, entity_confidence |-> 0, property_id |-> None,
     quality |-> None, ret |-> None, raised |-> None,
     geocoder_calls |-> <<>>, geo_result |-> None]

\* IngestionPipeline.__init__ and GeocodingService.__init__: no call in
\* progress, no request in flight on self.geocoder.client
CCIdle == [calls |-> [i \in 1..MaxCalls |-> PRIdle], in_flight |-> {}]

IRIdle ==
    [pc |-> "idle", stream |-> <<>>, limit |-> None, dry_run |-> FALSE,
     count |-> 0, errors |-> 0, source |-> <<>>, handed |-> <<>>,
     outcomes |-> <<>>]

InitEntity ==
    /\ cm_candidates = <<>>
    /\ cm_result = None
    /\ sm_call = None
    /\ rs_call = None
    /\ pr = PRIdle
    /\ ir = IRIdle
    /\ gc = GCIdle
    /\ qs = None
    /\ tl = None
    /\ nz = None
    /\ gid = None
    /\ rt = None
    /\ cc = CCIdle
    /\ xd = None

NextEntity == CmAppend \/ CmClassify \/ ResolveCall

\* classify_matches and resolve_from_candidates
SpecEntity == InitEntity /\ [][NextEntity]_vars

NextScore == ScoreMatchCall

\* score_match
SpecScore == InitEntity /\ [][NextScore]_vars

---------------------------------------------------------------------------
(* IngestionPipeline.process_record, one step per stage of its body.  An   *)
(* exception can leave any stage; the single handler at pipeline.py:119    *)
(* turns it into the failure return value None.                            *)

\* process_record(raw, existing_candidates) entered
Entered(raw, existing_candidates) ==
    [PRIdle EXCEPT !.pc = "normalize", !.raw = Some(raw),
                   !.existing_candidates = existing_candidates]

\* 1. normalize address: pipeline.py:52-54
Normalized(c) ==
    [c EXCEPT !.pc = "geocode",
              !.address = IF Truthy(Val(c.raw).address_raw)
                          THEN Some(normalize(Val(Val(c.raw).address_raw)))
                          ELSE None]

\* a condition that asks for the geocoder only when both coordinates are missing
GeocodeNeededBoth(c) ==
    /\ IsNone(Val(c.raw).latitude) /\ IsNone(Val(c.raw).longitude)
    /\ ~IsNone(c.address)
    /\ Truthy(Val(c.address).formatted_address)

\* the condition under which the geocoder is awaited: pipeline.py:58-60
GeocodeNeeded(c) ==
    /\ IsNone(Val(c.raw).latitude) \/ IsNone(Val(c.raw).longitude)
    /\ ~IsNone(c.address)
    /\ Truthy(Val(c.address).formatted_address)

\* await self.geocoder.geocode(address=formatted): pipeline.py:61-63; the
\* calls made to the geocoder are kept with the address each was given
GeocodeAwaited(c) ==
    [c EXCEPT !.geocoder_calls =
                  Append(c.geocoder_calls,
                         GetStr(Val(c.address).formatted_address, ""))]

\* a step 2 that gives the record up when the geocoder found nothing
GeocodedNotFoundFatal(c, geo_result) ==
    IF c.geocoder_calls # <<>> /\ IsNone(geo_result)
    THEN [c EXCEPT !.pc = "returned", !.raised = Some(c.pc), !.ret = None]
    ELSE [c EXCEPT !.pc = "resolve",
                   !.geo_result = geo_result,
                   !.lat = IF ~IsNone(geo_result)
                           THEN Some(Val(geo_result).latitude)
                           ELSE Val(c.raw).latitude,
                   !.lng = IF ~IsNone(geo_result)
                           THEN Some(Val(geo_result).longitude)
                           ELSE Val(c.raw).longitude]

\* 2. geocode if needed: pipeline.py:57-66; geo_result is None when the
\* geocoder was not called or found nothing
Geocoded(c, geo_result) ==
    [c EXCEPT !.pc = "resolve",
              !.geo_result = geo_result,
              !.lat = IF ~IsNone(geo_result) THEN Some(Val(geo_result).latitude)
                      ELSE Val(c.raw).latitude,
              !.lng = IF ~IsNone(geo_result) THEN Some(Val(geo_result).longitude)
                      ELSE Val(c.raw).longitude]

\* the resolve_from_candidates call of step 3: pipeline.py:72-80
EntityResultOf(c) ==
    resolve_from_candidates(
        IF ~IsNone(c.address) THEN Val(c.address).formatted_address ELSE None,
        c.lat, c.lng, Val(c.raw).parcel_id, Val(c.existing_candidates))

\* step 3 with the confidence recorded inside the auto_merge branch
RecordedMergeOnly(c, entity_result) ==
    [c EXCEPT !.pc = "generate_id",
              !.entity_result = Some(entity_result),
              !.canonical_id = IF entity_result.action = "auto_merge"
                               THEN entity_result.canonical_id ELSE None,
              !.entity_confidence = IF entity_result.action = "auto_merge"
                                    THEN entity_result.confidence ELSE 0]

\* what step 3 keeps of the result: pipeline.py:81-83
Recorded(c, entity_result) ==
    [c EXCEPT !.pc = "generate_id",
              !.entity_result = Some(entity_result),
              !.canonical_id = IF entity_result.action = "auto_merge"
                               THEN entity_result.canonical_id ELSE None,
              !.entity_confidence = entity_result.confidence]

\* a step 3 that goes back to the geocoder once when it had found nothing
ResolvedRetriesGeocode(c) ==
    IF Len(c.geocoder_calls) = 1 /\ IsNone(c.geo_result)
    THEN [c EXCEPT !.pc = "geocode"]
    ELSE IF ~IsNone(c.existing_candidates) /\ Val(c.existing_candidates) # <<>>
         THEN Recorded(c, EntityResultOf(c))
         ELSE [c EXCEPT !.pc = "generate_id"]

\* 3. entity resolution: pipeline.py:69-83; `if existing_candidates:` is
\* false for None and for the empty list
Resolved(c) ==
    IF ~IsNone(c.existing_candidates) /\ Val(c.existing_candidates) # <<>>
    THEN Recorded(c, EntityResultOf(c))
    ELSE [c EXCEPT !.pc = "generate_id"]

\* 4. property_id = canonical_id or generate_property_id(raw, address)
IdGenerated(c) ==
    [c EXCEPT !.pc = "quality",
              !.property_id = IF Truthy(c.canonical_id) THEN c.canonical_id
                              ELSE Some(generate_property_id(Val(c.raw),
                                                             c.address))]

\* 5. quality score: pipeline.py:91-95
QualityScored(c) ==
    [c EXCEPT !.pc = "assemble",
              !.quality = Some(calculate_quality_score(
                                   extract_property_data(Val(c.raw).raw_data),
                                   Some(Val(c.raw).extraction_timestamp),
                                   FALSE))]

\* 6. return ProcessedRecord(...): pipeline.py:104-117
Returned(c) ==
    [c EXCEPT !.pc = "returned",
              !.ret = Some(ProcessedRecord(Val(c.property_id), Val(c.raw),
                                           c.address, c.lat, c.lng,
                                           Val(c.quality), c.canonical_id,
                                           c.entity_confidence))]

\* a handler that hands back what had been computed so far
OnExceptionPartial(c) ==
    [c EXCEPT !.pc = "returned", !.raised = Some(c.pc),
              !.ret = Some([property_id |-> c.property_id,
                            address |-> c.address])]

\* except Exception: ... return None: pipeline.py:119-126
OnException(c) ==
    [c EXCEPT !.pc = "returned", !.raised = Some(c.pc), !.ret = None]

Stages ==
    {"normalize", "geocode", "resolve", "generate_id", "quality", "assemble"}

\* the stages in the order of the body of the try: pipeline.py:51-117
StageOrder ==
    <<"normalize", "geocode", "resolve", "generate_id", "quality", "assemble">>

\* the raw records and candidate sets of a direct process_record call
PayloadFull ==
    [address |-> Some(StrV("123 Main St")), city |-> Some(StrV("Austin")),
     state |-> Some(StrV("TX")), zip |-> Some(StrV("78701")),
     lat |-> Some(NumV(30)), lng |-> Some(NumV(-97)),
     property_type |-> Some(StrV("single_family")),
     lot_sqft |-> Some(NumV(8000))]

PayloadSparse == [address |-> Some(StrV("123 Main St")), zip_code |-> None]

PrAddresses ==
    {None, Some("   "), Some("123 Main Street, Austin, TX 78701"),
     Some("austin, texas 7870")}

PrCoords == {None, Some(0)}

PrParcels == {None, Some("P1")}

PrRaws ==
    {RawPropertyRecord("regrid", "r1", ts, payload, parcel, a, la, ln) :
        ts \in {-30 * 60}, payload \in {PayloadFull, PayloadSparse},
        parcel \in PrParcels, a \in PrAddresses, la \in PrCoords,
        ln \in PrCoords}

PrCandidateSets ==
    {None} \cup {Some(l) : l \in SeqsUpTo(CandidatePool, MaxExisting)}

PRCall ==
    /\ pr.pc = "idle"
    /\ ir.pc = "idle"
    /\ \E raw \in PrRaws, cands \in PrCandidateSets :
           pr' = Entered(raw, cands)
    /\ UNCHANGED <<cm_candidates, cm_result, sm_call, rs_call, ir, aux>>

PRNormalize ==
    /\ pr.pc = "normalize"
    /\ pr' = Normalized(pr)
    /\ UNCHANGED <<cm_candidates, cm_result, sm_call, rs_call, ir, aux>>

PRGeocode ==
    /\ pr.pc = "geocode"
    /\ IF GeocodeNeeded(pr)
       THEN \E cr \in CensusResponses, nr \in NominatimResponses :
                pr' = Geocoded(GeocodeAwaited(pr), geocode(cr, nr))
       ELSE pr' = Geocoded(pr, None)
    /\ UNCHANGED <<cm_candidates, cm_result, sm_call, rs_call, ir, aux>>

PRResolve ==
    /\ pr.pc = "resolve"
    /\ pr' = Resolved(pr)
    /\ UNCHANGED <<cm_candidates, cm_result, sm_call, rs_call, ir, aux>>

PRGenerateId ==
    /\ pr.pc = "generate_id"
    /\ pr' = IdGenerated(pr)
    /\ UNCHANGED <<cm_candidates, cm_result, sm_call, rs_call, ir, aux>>

PRQuality ==
    /\ pr.pc = "quality"
    /\ pr' = QualityScored(pr)
    /\ UNCHANGED <<cm_candidates, cm_result, sm_call, rs_call, ir, aux>>

PRReturn ==
    /\ pr.pc = "assemble"
    /\ pr' = Returned(pr)
    /\ UNCHANGED <<cm_candidates, cm_result, sm_call, rs_call, ir, aux>>

\* the stage the call is in raises an Exception
PRException ==
    /\ pr.pc \in Stages
    /\ pr' = OnException(pr)
    /\ UNCHANGED <<cm_candidates, cm_result, sm_call, rs_call, ir, aux>>

PRStep ==
    \/ PRNormalize
    \/ PRGeocode
    \/ PRResolve
    \/ PRGenerateId
    \/ PRQuality
    \/ PRReturn
    \/ PRException

Next == PRCall \/ PRStep

\* one process_record call on any raw record and candidate set
Spec == InitEntity /\ [][Next]_vars

---------------------------------------------------------------------------
(* cli/import_data.py: import_region.  The adapter's stream is a finite    *)
(* list of raw records; the loop suspends at the process_record call.      *)

ImportRecords ==
    {RawPropertyRecord("regrid", "r1", -30 * 60, PayloadFull, Some("P1"),
                       Some("123 Main Street, Austin, TX 78701"), None, None),
     RawPropertyRecord("regrid", "r2", -30 * 60, PayloadSparse, None, None,
                       Some(0), Some(0)),
     RawPropertyRecord("attom", "r1", -30 * 60, PayloadSparse, None,
                       Some("   "), None, Some(0))}

ImportLimits == {None, Some(0), Some(1), Some(2)}

\* import_data.py:43-61, up to the loop; an unknown provider returns (0, 0)
Started(known_provider, stream, limit, dry_run) ==
    [IRIdle EXCEPT !.pc = IF known_provider THEN "loop" ELSE "returned",
                   !.stream = IF known_provider THEN stream ELSE <<>>,
                   !.source = IF known_provider THEN stream ELSE <<>>,
                   !.limit = limit, !.dry_run = dry_run]

\* a break that waits until the count has passed the limit
LimitPassed(limit, count) ==
    ~IsNone(limit) /\ Val(limit) # 0 /\ count > Val(limit)

\* if limit and count >= limit: break   (import_data.py:78-79)
LimitReached(limit, count) ==
    ~IsNone(limit) /\ Val(limit) # 0 /\ count >= Val(limit)

\* the dry-run branch of the loop body: import_data.py:64-70, 78-79
DryRunStep(i) ==
    [i EXCEPT !.stream = Tail(i.stream),
              !.count = i.count + 1,
              !.pc = IF LimitReached(i.limit, i.count + 1)
                     THEN "returned" ELSE "loop"]

\* the loop body up to the await: import_data.py:63, 72
Handed(i) ==
    [i EXCEPT !.stream = Tail(i.stream),
              !.handed = Append(i.handed, Head(i.stream)),
              !.pc = "awaiting"]

\* a loop that gives up at the first failed record
CollectedStopOnError(i, result) ==
    [i EXCEPT !.count = IF ~IsNone(result) THEN i.count + 1 ELSE i.count,
              !.errors = IF ~IsNone(result) THEN i.errors ELSE i.errors + 1,
              !.outcomes = Append(i.outcomes, ~IsNone(result)),
              !.pc = IF IsNone(result) \/ LimitReached(i.limit, i.count + 1)
                     THEN "returned" ELSE "loop"]

\* the loop body after the await: import_data.py:73-79
Collected(i, result) ==
    [i EXCEPT !.count = IF ~IsNone(result) THEN i.count + 1 ELSE i.count,
              !.errors = IF ~IsNone(result) THEN i.errors ELSE i.errors + 1,
              !.outcomes = Append(i.outcomes, ~IsNone(result)),
              !.pc = IF LimitReached(i.limit,
                                     IF ~IsNone(result) THEN i.count + 1
                                     ELSE i.count)
                     THEN "returned" ELSE "loop"]

ImportStart ==
    /\ ir.pc = "idle"
    /\ pr.pc = "idle"
    /\ \E known \in BOOLEAN, stream \in SeqsUpTo(ImportRecords, MaxStream),
          limit \in ImportLimits, dry_run \in BOOLEAN :
           ir' = Started(known, stream, limit, dry_run)
    /\ UNCHANGED <<cm_candidates, cm_result, sm_call, rs_call, pr, aux>>

\* the stream yields its next record
ImportNext ==
    /\ ir.pc = "loop"
    /\ ir.stream # <<>>
    /\ IF ir.dry_run
       THEN ir' = DryRunStep(ir) /\ UNCHANGED pr
       ELSE ir' = Handed(ir) /\ pr' = Entered(Head(ir.stream), None)
    /\ UNCHANGED <<cm_candidates, cm_result, sm_call, rs_call, aux>>

\* process_record has returned to the loop
ImportCollect ==
    /\ ir.pc = "awaiting"
    /\ pr.pc = "returned"
    /\ ir' = Collected(ir, pr.ret)
    /\ pr' = PRIdle
    /\ UNCHANGED <<cm_candidates, cm_result, sm_call, rs_call, aux>>

\* the stream is exhausted: return count, errors
ImportReturn ==
    /\ ir.pc = "loop"
    /\ ir.stream = <<>>
    /\ ir' = [ir EXCEPT !.pc = "returned"]
    /\ UNCHANGED <<cm_candidates, cm_result, sm_call, rs_call, pr, aux>>

NextImport ==
    \/ ImportStart
    \/ ImportNext
    \/ ImportCollect
    \/ ImportReturn
    \/ PRStep

\* one import_region run
SpecImport == InitEntity /\ [][NextImport]_vars

---------------------------------------------------------------------------
(* geocoding.py: one GeocodingService.geocode call, provider by provider *)

GcAddresses == {"123 Main St", "9 Oak Ave"}

GcCities == {None, Some(""), Some("Austin")}

GcStates == {None, Some("TX")}

GcZips == {None, Some("78701")}

GcCall ==
    /\ gc.pc = "idle"
    /\ \E address \in GcAddresses, city \in GcCities, state \in GcStates,
          zip_code \in GcZips :
           gc' = GcEntered(address, city, state, zip_code)
    /\ UNCHANGED <<cm_candidates, cm_result, sm_call, rs_call, pr, ir, qs, tl, nz, gid, rt, cc, xd>>

\* result = await self._census_geocode(full_address)
GcCensus ==
    /\ gc.pc = "census"
    /\ \E response \in CensusResponses :
           gc' = AfterCensus(Awaited(gc, "census", response, Caught(CensusBody(response))),
                             Caught(CensusBody(response)))
    /\ UNCHANGED <<cm_candidates, cm_result, sm_call, rs_call, pr, ir, qs, tl, nz, gid, rt, cc, xd>>

\* result = await self._nominatim_geocode(full_address)
GcNominatim ==
    /\ gc.pc = "nominatim"
    /\ \E response \in NominatimResponses :
           gc' = AfterNominatim(Awaited(gc, "nominatim", response, Caught(NominatimBody(response))),
                                Caught(NominatimBody(response)))
    /\ UNCHANGED <<cm_candidates, cm_result, sm_call, rs_call, pr, ir, qs, tl, nz, gid, rt, cc, xd>>

NextGeocode == GcCall \/ GcCensus \/ GcNominatim

\* one geocode call
SpecGeocode == InitEntity /\ [][NextGeocode]_vars

---------------------------------------------------------------------------
(* pipeline.py: two generate_property_id calls side by side *)

GidParcels == {None, Some(""), Some("P1"), Some("P2")}

GidRaws ==
    {RawPropertyRecord(sys, rid, ts, PayloadSparse, parcel, a, None, la) :
        sys \in {"regrid", "attom"}, rid \in {"r1", "r2"}, ts \in {-30 * 60},
        parcel \in GidParcels, a \in {None, Some("   ")}, la \in {None}}

GidAddresses ==
    {None, Some(_empty_address),
     Some(normalize("123 Main Street, Austin, TX 78701")),
     Some([normalize("123 Main Street, Austin, TX 78701") EXCEPT !.city = Some("Dallas")]),
     Some([_empty_address EXCEPT !.state = Some("CA")])}

\* one call: its arguments and the id it returned
GidCalled(raw, address) ==
    [raw |-> raw, address |-> address, id |-> generate_property_id(raw, address)]

GidFirst ==
    /\ gid = None
    /\ \E raw \in GidRaws, address \in GidAddresses :
           gid' = Some(<<GidCalled(raw, address)>>)
    /\ UNCHANGED <<cm_candidates, cm_result, sm_call, rs_call, pr, ir, gc, qs, tl, nz, rt, cc, xd>>

GidSecond ==
    /\ gid # None
    /\ Len(Val(gid)) = 1
    /\ \E raw \in GidRaws, address \in GidAddresses :
           gid' = Some(Append(Val(gid), GidCalled(raw, address)))
    /\ UNCHANGED <<cm_candidates, cm_result, sm_call, rs_call, pr, ir, gc, qs, tl, nz, rt, cc, xd>>

NextGenerateId == GidFirst \/ GidSecond

SpecGenerateId == InitEntity /\ [][NextGenerateId]_vars

---------------------------------------------------------------------------
(* pipeline.py: a caller that processes a record and then processes the    *)
(* same record, with the same candidates, once more                         *)

RetryCandidateSets ==
    {None} \cup {Some(l) : l \in SeqsUpTo(CandidatePool, MaxRetryCands)}

\* the first attempt
RetryCall ==
    /\ pr.pc = "idle"
    /\ ir.pc = "idle"
    /\ rt = None
    /\ \E raw \in PrRaws, cands \in RetryCandidateSets :
           pr' = Entered(raw, cands)
    /\ rt' = Some(<<>>)
    /\ UNCHANGED <<cm_candidates, cm_result, sm_call, rs_call, ir, gc, qs, tl, nz, gid, cc, xd>>

\* the second attempt: what the first one returned is kept
PRRetry ==
    /\ pr.pc = "returned"
    /\ rt = Some(<<>>)
    /\ pr' = Entered(Val(pr.raw), pr.existing_candidates)
    /\ rt' = Some(<<pr.ret>>)
    /\ UNCHANGED <<cm_candidates, cm_result, sm_call, rs_call, ir, gc, qs, tl, nz, gid, cc, xd>>

NextRetry == RetryCall \/ PRRetry \/ PRStep

SpecRetry == InitEntity /\ [][NextRetry]_vars

---------------------------------------------------------------------------
(* quality.py: one calculate_quality_score call, and two _score_timeliness *)
(* calls side by side.  Timestamps are minutes on a clock that reads       *)
(* UtcNow at the call, so the age of a record is UtcNow - timestamp.       *)

QsStates == {None, Some(StrV("TX")), Some(StrV("Texas"))}

QsZips == {None, Some(StrV("78701"))}

QsLatitudes == {None, Some(NumV(30)), Some(NumV(95))}

QsLots == {None, Some(NumV(8000)), Some(NumV(1000))}

QsSqfts == {None, Some(NumV(2000))}

QsYears == {Some(NumV(1990)), Some(NumV(1700))}

QsAssessed == {Some(NumV(300000)), Some(NumV(10))}

\* the fields that are present or absent together
QsExtras == {None, Some(NumV(3))}

QsPropertyData ==
    {[address |-> Some(StrV("123 Main St")), city |-> Some(StrV("Austin")),
      state |-> st, zip_code |-> zip, latitude |-> lat,
      longitude |-> Some(NumV(-97)), lot_sqft |-> lot,
      property_type |-> Some(StrV("single_family")), bedrooms |-> extra,
      bathrooms |-> extra, sqft |-> sqft, year_built |-> year,
      assessed_value |-> assessed, estimated_value |-> extra,
      zoning |-> extra, owner_name |-> extra] :
        st \in QsStates, zip \in QsZips, lat \in QsLatitudes, lot \in QsLots,
        sqft \in QsSqfts, year \in QsYears, assessed \in QsAssessed,
        extra \in QsExtras}

QsTimestamps == {None, Some(-60), Some(-30 * 60)}

QsCall ==
    /\ qs = None
    /\ \E data \in QsPropertyData, ts \in QsTimestamps, dup \in BOOLEAN :
           qs' = Some([property_data |-> data, source_timestamp |-> ts,
                       duplicate_check |-> dup,
                       result |-> calculate_quality_score(data, ts, dup)])
    /\ UNCHANGED <<cm_candidates, cm_result, sm_call, rs_call, pr, ir, gc, tl, nz, gid, rt, cc, xd>>

NextQuality == QsCall

SpecQuality == InitEntity /\ [][NextQuality]_vars

\* ages in hours on and next to every bucket boundary, and in the future
TlAgeMinutes ==
    {-90, -30, 0, 59, 60, (24 * 60) - 1, 24 * 60, (168 * 60) - 1, 168 * 60,
     (720 * 60) - 1, 720 * 60, (2160 * 60) - 1, 2160 * 60, 5000 * 60}

TlTimestamps == {None} \cup {Some(UtcNow - age) : age \in TlAgeMinutes}

TlCalled(ts) == [source_timestamp |-> ts, result |-> _score_timeliness(ts)]

TlFirst ==
    /\ tl = None
    /\ \E ts \in TlTimestamps : tl' = Some(<<TlCalled(ts)>>)
    /\ UNCHANGED <<cm_candidates, cm_result, sm_call, rs_call, pr, ir, gc, qs, nz, gid, rt, cc, xd>>

TlSecond ==
    /\ tl # None
    /\ Len(Val(tl)) = 1
    /\ \E ts \in TlTimestamps : tl' = Some(Append(Val(tl), TlCalled(ts)))
    /\ UNCHANGED <<cm_candidates, cm_result, sm_call, rs_call, pr, ir, gc, qs, nz, gid, rt, cc, xd>>

NextTimeliness == TlFirst \/ TlSecond

SpecTimeliness == InitEntity /\ [][NextTimeliness]_vars

---------------------------------------------------------------------------
(* address.py: one normalize call.  What usaddress.tag makes of the raw     *)
(* string is an input of the call: either the tags of a string of the      *)
(* model, or any combination of the tags below.                            *)

NzRaws ==
    {"", "   ", "123 Main St 123 Main St", "123 Main Street, Austin, TX 78701",
     "austin, texas 7870", "123 main st"}

NzOccupancies == {<<"", "">>, <<"apt", "4">>, <<"apt", "">>}

NzParsed ==
    {[NoTags EXCEPT !.AddressNumber = number, !.StreetName = name,
                    !.StreetNamePostType = posttype,
                    !.StreetNamePostDirectional = direction,
                    !.OccupancyType = occupancy[1],
                    !.OccupancyIdentifier = occupancy[2],
                    !.PlaceName = place, !.StateName = statename,
                    !.ZipCode = zip] :
        number \in {"", "123"}, name \in {"", "Main"},
        posttype \in {"", "Street"}, direction \in {"", "north"},
        occupancy \in NzOccupancies, place \in {"", "austin"},
        statename \in {"", "TX", "texas"},
        zip \in {"", "78701", "7870", "78701-1234"}}

\* normalize(raw_address) on a string of the model
NzCall ==
    /\ nz = None
    /\ \E raw \in NzRaws :
           nz' = Some([raw |-> Some(raw), parsed |-> usaddress_tag(raw).parsed,
                       result |-> normalize(raw)])
    /\ UNCHANGED <<cm_candidates, cm_result, sm_call, rs_call, pr, ir, gc, qs, tl, gid, rt, cc, xd>>

\* normalize on a string that usaddress.tag parses into the given tags
NzTagged ==
    /\ nz = None
    /\ \E parsed \in NzParsed :
           nz' = Some([raw |-> None, parsed |-> parsed,
                       result |-> normalize_parsed(parsed)])
    /\ UNCHANGED <<cm_candidates, cm_result, sm_call, rs_call, pr, ir, gc, qs, tl, gid, rt, cc, xd>>

NextNormalize == NzCall \/ NzTagged

SpecNormalize == InitEntity /\ [][NextNormalize]_vars

---------------------------------------------------------------------------
(* Every producer of a confidence or a score, one call at a time *)

\* no call has been made yet
Quiet ==
    /\ cm_candidates = <<>>
    /\ IsNone(cm_result)
    /\ IsNone(sm_call)
    /\ IsNone(rs_call)
    /\ pr.pc = "idle"
    /\ ir.pc = "idle"
    /\ gc.pc = "idle"
    /\ qs = None
    /\ nz = None

CfNormalize == Quiet /\ NzTagged

CfGeocode == Quiet /\ GcCall

CfScoreMatch == Quiet /\ ScoreMatchCall

CfResolve == Quiet /\ ResolveCall

CfQuality == Quiet /\ QsCall

CfProcess == Quiet /\ PRCall

NextConfidence ==
    \/ CfNormalize
    \/ CfGeocode
    \/ GcCensus
    \/ GcNominatim
    \/ CfScoreMatch
    \/ CfResolve
    \/ CfQuality
    \/ CfProcess
    \/ PRStep

SpecConfidence == InitEntity /\ [][NextConfidence]_vars

---------------------------------------------------------------------------
(* pipeline.py: process_record calls in progress at the same time on one   *)
(* IngestionPipeline.  Every value of a call is a local of its coroutine;  *)
(* the instance holds self.geocoder, whose client is the one object the    *)
(* calls share.  The calls interleave stage by stage, which covers tasks   *)
(* suspended at the await and threads alike.                                *)

CcCandidates ==
    <<Candidate(Some("e1"), Some("123 Main St Austin, TX 78701"), Some(0),
                Some(0), Some("P1"), Some("parcel_id"))>>

\* the arguments of the calls: a raw record and its existing_candidates
CcArguments ==
    {<<RawPropertyRecord("regrid", "r1", -30 * 60, PayloadFull, None,
                         Some("austin, texas 7870"), None, None),
       Some(CcCandidates)>>,
     <<RawPropertyRecord("regrid", "r2", -30 * 60, PayloadSparse, Some("P1"),
                         None, Some(0), Some(0)),
       Some(CcCandidates)>>,
     <<RawPropertyRecord("attom", "r1", -60, PayloadSparse, None,
                         Some("123 Main Street, Austin, TX 78701"), None,
                         Some(4)),
       None>>}

\* what a geocode call can hand back
CcAnswers ==
    {geocode(cr, nr) : cr \in CensusResponses, nr \in NominatimResponses}

\* a frame whose address is kept on the instance: the address of call 1
FrameSharingAddress(calls, i) == [calls[i] EXCEPT !.address = calls[1].address]

\* the locals of call i: the frame of its own coroutine
FrameOf(calls, i) == calls[i]

\* the call is suspended in `await self.geocoder.geocode(...)`
Suspended(c) == [GeocodeAwaited(c) EXCEPT !.pc = "awaiting_geocoder"]

\* the next stage of a running call: pipeline.py:50-117
StageStep(c) ==
    CASE c.pc = "normalize" -> Normalized(c)
      [] c.pc = "geocode" ->
             IF GeocodeNeeded(c) THEN Suspended(c) ELSE Geocoded(c, None)
      [] c.pc = "resolve" -> Resolved(c)
      [] c.pc = "generate_id" -> IdGenerated(c)
      [] c.pc = "quality" -> QualityScored(c)
      [] c.pc = "assemble" -> Returned(c)

\* the requests in flight on the shared client after call i's step
InFlightAfter(in_flight, i, c) ==
    IF c.pc = "awaiting_geocoder"
    THEN in_flight \cup {<<i, c.geocoder_calls[Len(c.geocoder_calls)]>>}
    ELSE {r \in in_flight : r[1] # i}

\* a process_record call starts on a record no call in progress has
CcEnter ==
    /\ \E i \in 1..MaxCalls, args \in CcArguments :
           /\ cc.calls[i].pc = "idle"
           /\ \A j \in 1..MaxCalls : cc.calls[j].raw # Some(args[1])
           /\ cc' = [cc EXCEPT !.calls[i] = Entered(args[1], args[2])]
    /\ UNCHANGED <<cm_candidates, cm_result, sm_call, rs_call, pr, ir, gc, qs, tl, nz, gid, rt, xd>>

\* a call runs its next stage
CcAdvance ==
    /\ \E i \in 1..MaxCalls :
           /\ cc.calls[i].pc \in Stages
           /\ LET c == StageStep(FrameOf(cc.calls, i))
              IN  cc' = [calls |-> [cc.calls EXCEPT ![i] = c],
                         in_flight |-> InFlightAfter(cc.in_flight, i, c)]
    /\ UNCHANGED <<cm_candidates, cm_result, sm_call, rs_call, pr, ir, gc, qs, tl, nz, gid, rt, xd>>

\* the geocoder answers the request of a suspended call
CcResume ==
    /\ \E i \in 1..MaxCalls, answer \in CcAnswers :
           /\ cc.calls[i].pc = "awaiting_geocoder"
           /\ LET c == Geocoded(FrameOf(cc.calls, i), answer)
              IN  cc' = [calls |-> [cc.calls EXCEPT ![i] = c],
                         in_flight |-> InFlightAfter(cc.in_flight, i, c)]
    /\ UNCHANGED <<cm_candidates, cm_result, sm_call, rs_call, pr, ir, gc, qs, tl, nz, gid, rt, xd>>

\* the stage a call is in raises an Exception
CcRaise ==
    /\ \E i \in 1..MaxCalls :
           /\ cc.calls[i].pc \in Stages
           /\ cc' = [cc EXCEPT !.calls[i] = OnException(FrameOf(cc.calls, i))]
    /\ UNCHANGED <<cm_candidates, cm_result, sm_call, rs_call, pr, ir, gc, qs, tl, nz, gid, rt, xd>>

NextConcurrent == CcEnter \/ CcAdvance \/ CcResume \/ CcRaise

SpecConcurrent == InitEntity /\ [][NextConcurrent]_vars

---------------------------------------------------------------------------
(* pipeline.py: one extract_property_data call on a raw payload, scored as  *)
(* step 5 of process_record scores it.  A key that is absent and a key     *)
(* whose value is null read the same through dict.get.                     *)

XdZips == {None, Some(StrV("")), Some(StrV("78701"))}

XdZipCodes == {None, Some(StrV("78702"))}

XdLats == {None, Some(NumV(0)), Some(NumV(30))}

XdLatitudes == {None, Some(NumV(5))}

XdLngs == {None, Some(NumV(0)), Some(NumV(-97))}

XdLongitudes == {None, Some(NumV(5))}

\* the raw payloads: the keys with two accepted names vary one by one, the
\* other required and extracted fields together, and so do the three
\* remaining optional fields
XdPayloads ==
    {[address |-> IF rest THEN Some(StrV("123 Main St")) ELSE None,
      city |-> IF rest THEN Some(StrV("Austin")) ELSE None,
      state |-> IF rest THEN Some(StrV("TX")) ELSE None,
      zip |-> z, zip_code |-> zc, lat |-> la, latitude |-> lat,
      lng |-> ln, longitude |-> lon,
      lot_sqft |-> IF rest THEN Some(NumV(8000)) ELSE None,
      property_type |-> IF rest THEN Some(StrV("single_family")) ELSE None,
      bedrooms |-> IF rest THEN Some(NumV(3)) ELSE None,
      bathrooms |-> IF rest THEN Some(NumV(2)) ELSE None,
      sqft |-> IF rest THEN Some(NumV(2000)) ELSE None,
      year_built |-> IF rest THEN Some(NumV(1990)) ELSE None,
      assessed_value |-> IF rest THEN Some(NumV(300000)) ELSE None,
      estimated_value |-> IF more THEN Some(NumV(350000)) ELSE None,
      zoning |-> IF more THEN Some(StrV("R1")) ELSE None,
      owner_name |-> IF more THEN Some(StrV("A B")) ELSE None] :
        z \in XdZips, zc \in XdZipCodes, la \in XdLats, lat \in XdLatitudes,
        ln \in XdLngs, lon \in XdLongitudes, rest \in BOOLEAN,
        more \in BOOLEAN}

\* property_data = extract_property_data(raw.raw_data);
\* quality = calculate_quality_score(property_data, ...): pipeline.py:91-95
XdCall ==
    /\ xd = None
    /\ \E raw_data \in XdPayloads :
           xd' = Some([raw_data |-> raw_data,
                       result |-> extract_property_data(raw_data),
                       quality |-> calculate_quality_score(
                                       extract_property_data(raw_data),
                                       Some(-60), FALSE)])
    /\ UNCHANGED <<cm_candidates, cm_result, sm_call, rs_call, pr, ir, gc, qs, tl, nz, gid, rt, cc>>

NextExtract == XdCall

SpecExtract == InitEntity /\ [][NextExtract]_vars

---------------------------------------------------------------------------
(* Properties of classify_matches *)

\* the largest confidence in a non-empty candidate list
BestConfidence(candidates) ==
    CHOOSE c \in {candidates[i].confidence : i \in 1..Len(candidates)} :
        \A i \in 1..Len(candidates) : candidates[i].confidence <= c

\* number of candidates of the list with confidence v / above v
CountAt(s, v) == Cardinality({i \in 1..Len(s) : s[i].confidence = v})

CountAbove(s, v) == Cardinality({i \in 1..Len(s) : s[i].confidence > v})

MinOf(a, b) == IF a < b THEN a ELSE b

MaxOf(a, b) == IF a > b THEN a ELSE b

\* C1: the action depends on the highest candidate confidence c only:
\* auto_merge iff c >= 0.90, review iff 0.70 <= c < 0.90, keep_separate iff
\* c < 0.70 or there is no candidate (then confidence 0.0 and no matches).
C1_Thresholds ==
    ~IsNone(cm_result) =>
        LET r == Val(cm_result)
            empty == cm_candidates = <<>>
            c == IF empty THEN 0 ELSE BestConfidence(cm_candidates)
        IN  /\ r.action \in {"auto_merge", "review", "keep_separate"}
            /\ (r.action = "auto_merge") <=> (~empty /\ c >= Pct(90))
            /\ (r.action = "review") <=> (~empty /\ c >= Pct(70) /\ c < Pct(90))
            /\ (r.action = "keep_separate") <=> (empty \/ c < Pct(70))
            /\ empty => (r.confidence = 0 /\ r.matches = <<>>)

\* a classification whose best candidate sits exactly on the 0.90 threshold
C1_Witness ==
    /\ ~IsNone(cm_result)
    /\ cm_candidates # <<>>
    /\ BestConfidence(cm_candidates) = Pct(90)
    /\ Val(cm_result).action = "auto_merge"

\* C2: canonical_id is set iff the action is auto_merge, and is then the id
\* of the earliest candidate, in input order, among those of maximal
\* confidence; for review and keep_separate it is null.
C2_CanonicalId ==
    ~IsNone(cm_result) =>
        LET r == Val(cm_result) IN
            /\ (~IsNone(r.canonical_id)) <=> (r.action = "auto_merge")
            /\ r.action = "auto_merge" =>
                   LET c == BestConfidence(cm_candidates)
                       first == CHOOSE i \in 1..Len(cm_candidates) :
                                    /\ cm_candidates[i].confidence = c
                                    /\ \A j \in 1..(i - 1) :
                                           cm_candidates[j].confidence < c
                   IN  r.canonical_id = Some(cm_candidates[first].property_id)

\* an auto-merge where two candidates with different ids tie for the maximum
C2_Witness ==
    /\ ~IsNone(cm_result)
    /\ Val(cm_result).action = "auto_merge"
    /\ \E i, j \in 1..Len(cm_candidates) :
           /\ i < j
           /\ cm_candidates[i].confidence = BestConfidence(cm_candidates)
           /\ cm_candidates[j].confidence = BestConfidence(cm_candidates)
           /\ cm_candidates[i].property_id # cm_candidates[j].property_id
           /\ Val(cm_result).canonical_id = Some(cm_candidates[i].property_id)

\* C10: matches is in non-increasing confidence order, has min(5, n) entries
\* for n classified candidates, these are the n highest-confidence ones, and
\* the result's confidence is matches[0].confidence (0.0 without matches).
C10_Matches ==
    ~IsNone(cm_result) =>
        LET r == Val(cm_result)
            m == r.matches
            k == MinOf(5, Len(cm_candidates))
        IN  /\ Len(m) = k
            /\ \A i \in 1..(Len(m) - 1) : m[i].confidence >= m[i + 1].confidence
            /\ \A i \in 1..Len(m) :
                   \E j \in 1..Len(cm_candidates) : m[i] = cm_candidates[j]
            /\ \A j \in 1..Len(cm_candidates) :
                   LET v == cm_candidates[j].confidence IN
                       CountAt(m, v) =
                           MinOf(CountAt(cm_candidates, v),
                                 MaxOf(0, k - CountAbove(cm_candidates, v)))
            /\ r.confidence = IF m = <<>> THEN 0 ELSE m[1].confidence

\* more than five candidates were classified, out of order, and cut to five
C10_Witness ==
    /\ ~IsNone(cm_result)
    /\ Len(cm_candidates) > 5
    /\ Len(Val(cm_result).matches) = 5
    /\ \E i \in 1..(Len(cm_candidates) - 1) :
           cm_candidates[i].confidence < cm_candidates[i + 1].confidence

---------------------------------------------------------------------------
(* Properties of score_match *)

\* the three signals of a score_match call, stated from its arguments
ParcelFires(c) ==
    /\ c.input_parcel_id \notin {None, Some("")}
    /\ c.input_parcel_id = c.candidate_apn

AddressSim(c) ==
    IF c.input_address \in {None, Some("")}
       \/ c.candidate_address \in {None, Some("")}
    THEN 0
    ELSE score_address_similarity(Val(c.input_address),
                                  Val(c.candidate_address))

AddressFires(c) == AddressSim(c) > Pct(85)

AllCoordsPresent(c) ==
    /\ c.input_lat # None
    /\ c.input_lng # None
    /\ c.candidate_lat # None
    /\ c.candidate_lng # None

\* squared distance in square metres between the two points of the call
DistSq(c) ==
    LET dlat == Val(c.candidate_lat) - Val(c.input_lat)
        dlng == Val(c.candidate_lng) - Val(c.input_lng)
    IN  (dlat * dlat + dlng * dlng) * GridMetres * GridMetres

LocationValue(c) ==
    IF ~AllCoordsPresent(c) THEN 0
    ELSE IF DistSq(c) < 10 * 10 THEN Pct(95)
    ELSE IF DistSq(c) < 50 * 50 THEN Pct(80)
    ELSE 0

FieldSet(m) == {m.matched_fields[i] : i \in 1..Len(m.matched_fields)}

\* C7: confidence is the arithmetic mean of exactly the signals that fired
\* (parcel id 1.0, address similarity when > 0.85, location 0.95 or 0.80)
\* and 0.0 when none fired; matched_fields lists exactly the fired signals,
\* each once, so it is empty iff the confidence is 0.0.
C7_MeanOfFired ==
    ~IsNone(sm_call) =>
        LET c == Val(sm_call)
            r == c.result
            fired == (IF ParcelFires(c) THEN {"parcel_id"} ELSE {})
                     \cup (IF AddressFires(c) THEN {"address"} ELSE {})
                     \cup (IF LocationValue(c) > 0 THEN {"location"} ELSE {})
            total == (IF ParcelFires(c) THEN Scale ELSE 0)
                     + (IF AddressFires(c) THEN AddressSim(c) ELSE 0)
                     + LocationValue(c)
        IN  /\ FieldSet(r) = fired
            /\ Len(r.matched_fields) = Cardinality(fired)
            /\ r.confidence * Cardinality(fired) = total
            /\ fired = {} => r.confidence = 0
            /\ (r.matched_fields = <<>>) <=> (r.confidence = 0)

\* all three signals fired, and they were not all equal
C7_Witness ==
    /\ ~IsNone(sm_call)
    /\ Len(Val(sm_call).result.matched_fields) = 3
    /\ Val(sm_call).result.confidence < Scale
    /\ Val(sm_call).result.confidence > Pct(80)

\* the location score of a result: what is left of the sum of the fired
\* signals once the parcel and address signals are taken out
LocationScoreOf(c) ==
    c.result.confidence * Len(c.result.matched_fields)
        - (IF "parcel_id" \in FieldSet(c.result) THEN Scale ELSE 0)
        - (IF "address" \in FieldSet(c.result) THEN AddressSim(c) ELSE 0)

\* C8: the location signal contributes 0.95 iff all four coordinates are
\* present and d < 10 m, 0.80 iff 10 <= d < 50 m, and nothing iff d >= 50 m
\* or a coordinate is missing; a coordinate equal to 0 is present.
C8_Location ==
    ~IsNone(sm_call) =>
        LET c == Val(sm_call)
            has == "location" \in FieldSet(c.result)
        IN  /\ (has /\ LocationScoreOf(c) = Pct(95))
                   <=> (AllCoordsPresent(c) /\ DistSq(c) < 10 * 10)
            /\ (has /\ LocationScoreOf(c) = Pct(80))
                   <=> (AllCoordsPresent(c) /\ DistSq(c) >= 10 * 10
                        /\ DistSq(c) < 50 * 50)
            /\ (~has) <=> (~AllCoordsPresent(c) \/ DistSq(c) >= 50 * 50)

\* input coordinates (0, 0), candidate exactly 10 m away: location at 0.80
C8_Witness ==
    /\ ~IsNone(sm_call)
    /\ Val(sm_call).input_lat = Some(0)
    /\ Val(sm_call).input_lng = Some(0)
    /\ AllCoordsPresent(Val(sm_call))
    /\ DistSq(Val(sm_call)) = 10 * 10
    /\ "location" \in FieldSet(Val(sm_call).result)
    /\ LocationScoreOf(Val(sm_call)) = Pct(80)

---------------------------------------------------------------------------
(* Properties of resolve_from_candidates *)

\* the score of every candidate of the call, filtered or not
AllScores(a) ==
    [i \in 1..Len(a.candidates) |->
        ScoreCandidate(a.address, a.lat, a.lng, a.parcel_id, a.candidates[i])]

\* the candidates of the call that score above 0.30
Qualifying(a) ==
    LET Above(cand) ==
            ScoreCandidate(a.address, a.lat, a.lng, a.parcel_id,
                           cand).confidence > Pct(30)
    IN  SelectSeq(a.candidates, Above)

\* C9: resolve_from_candidates classifies exactly the candidates scoring
\* strictly above 0.30: one scoring <= 0.30 is in no match and changes
\* nothing in the result, and every one scoring > 0.30 is classified.
C9_Filter ==
    ~IsNone(rs_call) =>
        LET a == Val(rs_call)
            r == Val(cm_result)
            HighScore(m) == m.confidence > Pct(30)
        IN  /\ \A i \in 1..Len(r.matches) : r.matches[i].confidence > Pct(30)
            /\ cm_candidates = SelectSeq(AllScores(a), HighScore)
            /\ r = resolve_from_candidates(a.address, a.lat, a.lng,
                                           a.parcel_id, Qualifying(a))

\* a call with a candidate at or below 0.30 and one above it
C9_Witness ==
    /\ ~IsNone(rs_call)
    /\ \E i, j \in 1..Len(Val(rs_call).candidates) :
           /\ AllScores(Val(rs_call))[i].confidence <= Pct(30)
           /\ AllScores(Val(rs_call))[j].confidence > Pct(30)
    /\ Val(cm_result).matches # <<>>

---------------------------------------------------------------------------
(* Properties of process_record *)

ProcessedRecordFields ==
    {"property_id", "source_system", "source_type", "source_record_id",
     "address", "latitude", "longitude", "quality", "canonical_id",
     "entity_confidence", "raw_data", "extraction_timestamp"}

\* the call has returned a ProcessedRecord
ReturnedRecord == pr.pc = "returned" /\ ~IsNone(pr.ret)

\* a non-empty candidate set was supplied to the call
CandidatesSupplied ==
    ~IsNone(pr.existing_candidates) /\ Val(pr.existing_candidates) # <<>>

\* C3: in a returned ProcessedRecord property_id is the canonical id when
\* entity resolution produced one (canonical_id non-null), for every candidate
\* set, and generate_property_id(raw, address) otherwise.
C3_PropertyIdIsCanonical ==
    ReturnedRecord =>
        LET r == Val(pr.ret) IN
            IF ~IsNone(r.canonical_id)
            THEN r.property_id = Val(r.canonical_id)
            ELSE r.property_id = generate_property_id(Val(pr.raw), r.address)

\* C4: canonical_id is set only on an auto_merge verdict (null for review and
\* keep_separate); entity_confidence is the resolution result's confidence for
\* every verdict; without a candidate set it is 0.0 and canonical_id is null.
C4_CanonicalOnlyOnMerge ==
    ReturnedRecord =>
        LET r == Val(pr.ret) IN
            IF CandidatesSupplied
            THEN LET er == resolve_from_candidates(
                               IF IsNone(r.address) THEN None
                               ELSE Val(r.address).formatted_address,
                               r.latitude, r.longitude, Val(pr.raw).parcel_id,
                               Val(pr.existing_candidates))
                 IN  /\ pr.entity_result = Some(er)
                     /\ ~IsNone(r.canonical_id) => er.action = "auto_merge"
                     /\ er.action \in {"review", "keep_separate"}
                            => IsNone(r.canonical_id)
                     /\ r.entity_confidence = er.confidence
            ELSE r.entity_confidence = 0 /\ IsNone(r.canonical_id)

\* a record returned after a review verdict: no canonical id, the confidence kept
C4_Witness ==
    /\ ReturnedRecord
    /\ CandidatesSupplied
    /\ Val(pr.entity_result).action = "review"
    /\ IsNone(Val(pr.ret).canonical_id)
    /\ Val(pr.ret).entity_confidence >= Pct(70)

\* C5: a call ends in exactly one of a ProcessedRecord or the failure value:
\* an exception in any stage gives the failure value None and no record,
\* partial or complete; a call that raised nothing gives a complete record;
\* nothing is emitted before the call returns.
C5_FailureOrRecord ==
    /\ pr.pc \in {"idle", "returned"} \cup Stages
    /\ pr.pc # "returned" => IsNone(pr.ret)
    /\ pr.pc = "returned" =>
           IF ~IsNone(pr.raised)
           THEN IsNone(pr.ret)
           ELSE /\ ~IsNone(pr.ret)
                /\ DOMAIN Val(pr.ret) = ProcessedRecordFields
                /\ Some(Val(pr.ret).property_id) = pr.property_id
                /\ Some(Val(pr.ret).quality) = pr.quality

\* an exception in the quality stage, after the id had been computed
C5_Witness ==
    /\ pr.pc = "returned"
    /\ pr.raised = Some("quality")
    /\ ~IsNone(pr.property_id)
    /\ IsNone(pr.ret)

---------------------------------------------------------------------------
(* Properties of import_region *)

CountOf(s, b) == Cardinality({k \in 1..Len(s) : s[k] = b})

\* C6: a run that is not a dry run and has no limit hands every record of
\* the stream to process_record once, in stream order, whatever fails; on
\* return count + errors is the stream's length N and errors is the number
\* of failed records.
C6_FailureIsolation ==
    (ir.pc = "returned" /\ ~ir.dry_run /\ IsNone(ir.limit)) =>
        /\ ir.handed = ir.source
        /\ Len(ir.outcomes) = Len(ir.source)
        /\ ir.count + ir.errors = Len(ir.source)
        /\ ir.errors = CountOf(ir.outcomes, FALSE)
        /\ ir.count = CountOf(ir.outcomes, TRUE)

\* three records, the first one failed, the two after it were processed
C6_Witness ==
    /\ ir.pc = "returned"
    /\ ~ir.dry_run
    /\ IsNone(ir.limit)
    /\ Len(ir.source) = 3
    /\ ir.outcomes = <<FALSE, TRUE, TRUE>>
    /\ ir.count = 2
    /\ ir.errors = 1

---------------------------------------------------------------------------
(* Properties of GeocodingService.geocode *)

\* the providers called so far, in call order
ProvidersCalled == [k \in 1..Len(gc.calls) |-> gc.calls[k][1]]

CensusMatched == Len(gc.exchanges) >= 1 /\ gc.exchanges[1].kind = "match"

NominatimMatched == Len(gc.exchanges) = 2 /\ gc.exchanges[2].kind = "match"

CensusResultOf(exchange) ==
    GeocodingResult(exchange.lat, exchange.lng, "rooftop", "census", Pct(95))

NominatimResultOf(exchange) ==
    GeocodingResult(exchange.lat, exchange.lng, "street", "nominatim", Pct(80))

\* C11: Census is queried first and Nominatim only after Census returned no
\* result; each provider is called at most once, with the full address; when
\* Census returns a result the call returns it unmodified and Nominatim is
\* never called.
C11_CensusFirst ==
    /\ ProvidersCalled \in {<<>>, <<"census">>, <<"census", "nominatim">>}
    /\ \A k \in 1..Len(gc.calls) : gc.calls[k][2] = gc.full_address
    /\ Len(gc.calls) = 2 => ~CensusMatched
    /\ CensusMatched =>
           /\ gc.pc = "returned"
           /\ ProvidersCalled = <<"census">>
           /\ gc.ret = Some(CensusResultOf(gc.exchanges[1]))

\* Census answered with a match: the call is over after one provider call
C11_Witness ==
    /\ gc.pc = "returned"
    /\ CensusMatched
    /\ ProvidersCalled = <<"census">>
    /\ ~IsNone(gc.ret)
    /\ Val(gc.ret).source = "census"

\* C12: geocode never raises: a provider's network error, timeout, non-2xx
\* status or malformed payload counts as no result from that provider and
\* the next provider is tried; the call returns None exactly when neither
\* provider produced a result, and otherwise the result of the first
\* provider, in the order Census, Nominatim, that produced one.
C12_NeverRaises ==
    /\ ~gc.raised
    /\ gc.pc = "returned" =>
           /\ IsNone(gc.ret) <=> (~CensusMatched /\ ~NominatimMatched)
           /\ ~CensusMatched => ProvidersCalled = <<"census", "nominatim">>
           /\ (~CensusMatched /\ NominatimMatched)
                  => gc.ret = Some(NominatimResultOf(gc.exchanges[2]))
           /\ CensusMatched => gc.ret = Some(CensusResultOf(gc.exchanges[1]))
           /\ gc.ret = geocode(gc.exchanges[1],
                               IF Len(gc.exchanges) = 2 THEN gc.exchanges[2]
                               ELSE ProviderResponse("empty", 0, 0))

\* Census timed out and Nominatim, tried next, produced the result
C12_Witness ==
    /\ gc.pc = "returned"
    /\ ~gc.raised
    /\ Len(gc.exchanges) = 2
    /\ gc.exchanges[1].kind = "timeout"
    /\ NominatimMatched
    /\ ~IsNone(gc.ret)
    /\ Val(gc.ret).source = "nominatim"

---------------------------------------------------------------------------
(* Properties of the geocoding step of process_record *)

\* the call has left step 2 without an exception in steps 1 and 2
PastGeocode ==
    \/ pr.pc \in {"resolve", "generate_id", "quality", "assemble"}
    \/ pr.pc = "returned" /\ pr.raised \notin {Some("normalize"), Some("geocode")}

CoordinateMissing ==
    IsNone(Val(pr.raw).latitude) \/ IsNone(Val(pr.raw).longitude)

\* the formatted address normalization gives for the raw address, if any
FormattedOfRaw ==
    IF Truthy(Val(pr.raw).address_raw)
    THEN normalize(Val(Val(pr.raw).address_raw)).formatted_address
    ELSE None

\* C13: the geocoder is invoked exactly when a coordinate of the raw record
\* is missing and normalization produced a non-empty formatted address, with
\* that address; never when both coordinates are supplied, when address_raw
\* is absent or when the formatted address is null; at most once per record.
C13_GeocoderInvoked ==
    pr.pc # "idle" =>
        /\ Len(pr.geocoder_calls) <= 1
        /\ pr.geocoder_calls # <<>> =>
               /\ CoordinateMissing
               /\ Truthy(Val(pr.raw).address_raw)
               /\ Truthy(FormattedOfRaw)
               /\ pr.geocoder_calls = <<Val(FormattedOfRaw)>>
        /\ (PastGeocode /\ CoordinateMissing /\ Truthy(FormattedOfRaw))
               => Len(pr.geocoder_calls) = 1

\* only the longitude was missing and the geocoder was asked once
C13_Witness ==
    /\ ReturnedRecord
    /\ ~IsNone(Val(pr.raw).latitude)
    /\ IsNone(Val(pr.raw).longitude)
    /\ Len(pr.geocoder_calls) = 1

\* the geocoder was asked and found nothing
GeocodeNotFound ==
    pr.pc # "idle" /\ pr.geocoder_calls # <<>> /\ IsNone(pr.geo_result)

\* the later steps have run for the returned record
LaterStepsRan ==
    /\ ~IsNone(pr.property_id)
    /\ Val(pr.ret).property_id = Val(pr.property_id)
    /\ ~IsNone(pr.quality)
    /\ Val(pr.ret).quality = Val(pr.quality)
    /\ CandidatesSupplied =>
           /\ ~IsNone(pr.entity_result)
           /\ Val(pr.ret).entity_confidence = Val(pr.entity_result).confidence

\* the not-found answer itself never ends the call
NotFoundNotFatal ==
    GeocodeNotFound =>
        /\ pr.pc \in {"resolve", "generate_id", "quality", "assemble", "returned"}
        /\ pr.raised \in {None, Some("resolve"), Some("generate_id"),
                          Some("quality"), Some("assemble")}
        /\ (pr.pc = "returned" /\ IsNone(pr.raised)) => ~IsNone(pr.ret)

\* C14 as stated: after a geocoding not-found the call still returns a
\* ProcessedRecord, its coordinates are null, and entity resolution, id
\* generation and quality scoring have run.
C14_NullCoordinates ==
    /\ NotFoundNotFatal
    /\ (GeocodeNotFound /\ ReturnedRecord) =>
           /\ IsNone(Val(pr.ret).latitude)
           /\ IsNone(Val(pr.ret).longitude)
           /\ LaterStepsRan

\* C14 as amended: after a geocoding not-found the call still returns a
\* ProcessedRecord, its coordinates are those of the raw record (a missing
\* one stays null, a supplied one is kept), and entity resolution, id
\* generation and quality scoring have run.
C14_NotFoundNonFatal ==
    /\ NotFoundNotFatal
    /\ (GeocodeNotFound /\ ReturnedRecord) =>
           /\ Val(pr.ret).latitude = Val(pr.raw).latitude
           /\ Val(pr.ret).longitude = Val(pr.raw).longitude
           /\ IsNone(Val(pr.ret).latitude) \/ IsNone(Val(pr.ret).longitude)
           /\ LaterStepsRan

\* a record returned after a not-found, with candidates resolved on the way
C14_Witness ==
    /\ GeocodeNotFound
    /\ ReturnedRecord
    /\ CandidatesSupplied
    /\ IsNone(Val(pr.ret).latitude)
    /\ IsNone(Val(pr.ret).longitude)

---------------------------------------------------------------------------
(* Properties of generate_property_id *)

\* the state of the claim: the address's state, "XX" without address or state
ClaimedState(call) ==
    IF IsNone(call.address) THEN "XX"
    ELSE IF IsNone(Val(call.address).state) THEN "XX"
    ELSE Val(Val(call.address).state)

\* a parcel id is present when it is neither null nor the empty string
ParcelPresent(call) ==
    ~IsNone(call.raw.parcel_id) /\ Val(call.raw.parcel_id) # ""

\* the key of the claim: the parcel id, else source_system:source_record_id
ClaimedKey(call) ==
    IF ParcelPresent(call) THEN Val(call.raw.parcel_id)
    ELSE call.raw.source_system \o ":" \o call.raw.source_record_id

\* C15: the id is '<state>-<first 10 hex digits, upper case, of the hash of
\* key>', with state the normalized address's state or 'XX' and key the
\* parcel id when present (non-empty), else source_system:source_record_id;
\* two calls with equal (state, key) return equal ids whatever the other
\* fields are, and a present parcel id takes precedence over the source tuple.
C15_IdOfStateAndKey ==
    gid # None =>
        /\ \A k \in 1..Len(Val(gid)) :
               LET call == Val(gid)[k] IN
                   /\ call.id = ClaimedState(call) \o "-" \o Md5Hex10Upper(ClaimedKey(call))
                   /\ ParcelPresent(call) =>
                          call.id = ClaimedState(call) \o "-" \o Md5Hex10Upper(Val(call.raw.parcel_id))
        /\ Len(Val(gid)) = 2 =>
               LET a == Val(gid)[1]
                   b == Val(gid)[2]
               IN  (ClaimedState(a) = ClaimedState(b) /\ ClaimedKey(a) = ClaimedKey(b))
                       => a.id = b.id

\* two records from different sources and with different addresses, the same
\* state and the same parcel id: the same id
C15_Witness ==
    /\ gid # None
    /\ Len(Val(gid)) = 2
    /\ Val(gid)[1].raw.source_system # Val(gid)[2].raw.source_system
    /\ Val(gid)[1].address # Val(gid)[2].address
    /\ Val(gid)[1].raw.parcel_id = Some("P1")
    /\ Val(gid)[2].raw.parcel_id = Some("P1")
    /\ Val(gid)[1].id = "TX-5F2B9323C3"
    /\ Val(gid)[2].id = "TX-5F2B9323C3"

---------------------------------------------------------------------------
(* Properties of a retried record *)

\* both attempts have returned a ProcessedRecord
BothReturned ==
    /\ rt # None
    /\ Len(Val(rt)) = 1
    /\ ~IsNone(Val(rt)[1])
    /\ ReturnedRecord

\* C16: two process_record calls on the same raw record with the same
\* candidate set that both return a ProcessedRecord return the same
\* property_id and the same canonical_id, whatever the geocoding providers
\* answer on each attempt.
C16_RetrySameId ==
    BothReturned =>
        /\ Val(pr.ret).property_id = Val(Val(rt)[1]).property_id
        /\ Val(pr.ret).canonical_id = Val(Val(rt)[1]).canonical_id

---------------------------------------------------------------------------
(* Properties of calculate_quality_score *)

\* C18: the confidence label of a DataQualityScore agrees with the overall
\* score reported in the same result: 'high' iff score >= 0.85, 'medium' iff
\* 0.70 <= score < 0.85, 'low' iff score < 0.70.
C18_LabelAgrees ==
    qs # None =>
        LET r == Val(qs).result IN
            /\ r.confidence \in {"high", "medium", "low"}
            /\ r.confidence = "high" <=> r.score >= Pct(85)
            /\ r.confidence = "medium" <=> (Pct(70) <= r.score /\ r.score < Pct(85))
            /\ r.confidence = "low" <=> r.score < Pct(70)

\* the whole hours from the timestamp to now, as the age in minutes gives them
WholeHours(ts) ==
    IF UtcNow - Val(ts) >= 0 THEN (UtcNow - Val(ts)) \div 60
    ELSE -((Val(ts) - UtcNow) \div 60)

\* C19: with h the whole hours elapsed since the extraction timestamp,
\* timeliness is 1.0 for h < 24, 0.9 for 24 <= h < 168, 0.8 for
\* 168 <= h < 720, 0.7 for 720 <= h < 2160 and 0.5 otherwise, and
\* freshness_hours = h; an absent timestamp gives 0.7 and 0; of two
\* records the older one never has the greater timeliness.
C19_Timeliness ==
    tl # None =>
        /\ \A k \in 1..Len(Val(tl)) :
               LET ts == Val(tl)[k].source_timestamp
                   r == Val(tl)[k].result
               IN  IF IsNone(ts)
                   THEN r.score = Pct(70) /\ r.freshness_hours = 0
                   ELSE /\ r.freshness_hours = WholeHours(ts)
                        /\ WholeHours(ts) < 24 => r.score = Scale
                        /\ (24 <= WholeHours(ts) /\ WholeHours(ts) < 168) => r.score = Pct(90)
                        /\ (168 <= WholeHours(ts) /\ WholeHours(ts) < 720) => r.score = Pct(80)
                        /\ (720 <= WholeHours(ts) /\ WholeHours(ts) < 2160) => r.score = Pct(70)
                        /\ 2160 <= WholeHours(ts) => r.score = Pct(50)
        /\ Len(Val(tl)) = 2 =>
               LET a == Val(tl)[1]
                   b == Val(tl)[2]
               IN  (~IsNone(a.source_timestamp) /\ ~IsNone(b.source_timestamp)
                        /\ Val(a.source_timestamp) <= Val(b.source_timestamp))
                       => a.result.score <= b.result.score

\* a record of 167 h 59 min scores 0.9, one of exactly 168 h scores 0.8
C19_Witness ==
    /\ tl # None
    /\ Len(Val(tl)) = 2
    /\ Val(tl)[1].source_timestamp = Some(UtcNow - ((168 * 60) - 1))
    /\ Val(tl)[1].result = [score |-> Pct(90), freshness_hours |-> 167]
    /\ Val(tl)[2].source_timestamp = Some(UtcNow - (168 * 60))
    /\ Val(tl)[2].result = [score |-> Pct(80), freshness_hours |-> 168]

---------------------------------------------------------------------------
(* Properties of normalize *)

\* the present components among street address, city, state and ZIP, in
\* that order, the one before the state carrying a comma
ClaimedParts(r) ==
    LET before == Present(<<r.street_address, r.city>>)
        withComma == IF before # <<>> /\ ~IsNone(r.state)
                     THEN [before EXCEPT ![Len(before)] = @ \o ","]
                     ELSE before
    IN  withComma \o Present(<<r.state, r.zip_code>>)

\* C20: formatted_address is the present components among street address,
\* city, state and ZIP, in that order, joined by single spaces, with a comma
\* appended to the component right before the state; every present
\* component appears, so it is null only when all four are absent.
C20_FormattedAddress ==
    nz # None =>
        LET r == Val(nz).result IN
            /\ r.formatted_address = OrNone(JoinSp(ClaimedParts(r)))
            /\ IsNone(r.formatted_address)
                   <=> (IsNone(r.street_address) /\ IsNone(r.city)
                            /\ IsNone(r.state) /\ IsNone(r.zip_code))

---------------------------------------------------------------------------
(* Range of the confidences and scores *)

InUnit(x) == 0 <= x /\ x <= Scale

\* an optional record's confidence is in range when the record is there
ConfidenceInUnit(o) == ~IsNone(o) => InUnit(Val(o).confidence)

MatchesInUnit(matches) ==
    \A k \in 1..Len(matches) : InUnit(matches[k].confidence)

ResolutionInUnit(o) ==
    ~IsNone(o) => (InUnit(Val(o).confidence) /\ MatchesInUnit(Val(o).matches))

QualityInUnit(o) ==
    ~IsNone(o) =>
        /\ InUnit(Val(o).score)
        /\ InUnit(Val(o).completeness)
        /\ InUnit(Val(o).accuracy)
        /\ InUnit(Val(o).consistency)
        /\ InUnit(Val(o).timeliness)
        /\ InUnit(Val(o).validity)
        /\ InUnit(Val(o).uniqueness)

RecordInUnit(o) ==
    ~IsNone(o) =>
        /\ InUnit(Val(o).entity_confidence)
        /\ ConfidenceInUnit(Val(o).address)
        /\ QualityInUnit(Some(Val(o).quality))

\* C17: every confidence and score produced lies in [0,1]:
\* NormalizedAddress.confidence, GeocodingResult.confidence,
\* MatchCandidate.confidence, EntityResolutionResult.confidence,
\* ProcessedRecord.entity_confidence and the overall score and six
\* sub-scores of DataQualityScore.
C17_UnitInterval ==
    /\ nz # None => InUnit(Val(nz).result.confidence)
    /\ ConfidenceInUnit(gc.result)
    /\ ConfidenceInUnit(gc.ret)
    /\ sm_call # None => InUnit(Val(sm_call).result.confidence)
    /\ MatchesInUnit(cm_candidates)
    /\ ResolutionInUnit(cm_result)
    /\ qs # None => QualityInUnit(Some(Val(qs).result))
    /\ ConfidenceInUnit(pr.address)
    /\ ConfidenceInUnit(pr.geo_result)
    /\ ResolutionInUnit(pr.entity_result)
    /\ InUnit(pr.entity_confidence)
    /\ QualityInUnit(pr.quality)
    /\ pr.pc = "returned" => RecordInUnit(pr.ret)

\* a returned record whose address and merge confidences are both 1.0 and
\* whose coordinates came from Census
C17_Witness ==
    /\ ReturnedRecord
    /\ ~IsNone(Val(pr.ret).address)
    /\ Val(Val(pr.ret).address).confidence = Scale
    /\ Val(pr.ret).entity_confidence = Scale
    /\ ~IsNone(pr.geo_result)
    /\ Val(pr.geo_result).confidence = Pct(95)
    /\ Val(pr.ret).quality.score > 0

---------------------------------------------------------------------------
(* Properties of concurrent process_record calls *)

\* the same call run alone: the stages of process_record one after another
\* on the call's own arguments, with the geocoder answering as it did
RunAlone(raw, existing_candidates, answer) ==
    LET n == Normalized(Entered(raw, existing_candidates))
        g == IF GeocodeNeeded(n) THEN Geocoded(GeocodeAwaited(n), answer)
             ELSE Geocoded(n, None)
    IN  Returned(QualityScored(IdGenerated(Resolved(g)))).ret

\* the raw record, the candidates and the geocoder's answer of call i
ReturnsAsAlone(i) ==
    LET c == cc.calls[i]
    IN  c.pc = "returned" =>
            IF ~IsNone(c.raised) THEN IsNone(c.ret)
            ELSE c.ret = RunAlone(Val(c.raw), c.existing_candidates,
                                  c.geo_result)

\* C21: whatever the interleaving of the process_record calls on one
\* pipeline instance, each call returns the ProcessedRecord (or the failure)
\* it returns when run alone on its record with the same geocoder answer,
\* and a step of one call leaves the values of every other call as they were.
C21_NoCoordination ==
    /\ [](\A i \in 1..MaxCalls : ReturnsAsAlone(i))
    /\ [][\A i, j \in 1..MaxCalls :
              (i # j /\ cc.calls[i] # cc'.calls[i]) =>
                  cc'.calls[j] = cc.calls[j]]_vars

\* two calls on different records have both returned a record, one of them
\* merged after a geocoder answer that arrived while the other call was
\* past its own normalisation
C21_Witness ==
    /\ \A i \in 1..2 : cc.calls[i].pc = "returned" /\ ~IsNone(cc.calls[i].ret)
    /\ cc.calls[1].raw # cc.calls[2].raw
    /\ \E i \in 1..2 :
           /\ ~IsNone(cc.calls[i].geo_result)
           /\ ~IsNone(Val(cc.calls[i].ret).canonical_id)
    /\ \E i \in 1..2 : IsNone(Val(cc.calls[i].ret).canonical_id)

---------------------------------------------------------------------------
(* Properties of the stages of process_record *)

StageIndex(pc) == CHOOSE k \in 1..Len(StageOrder) : StageOrder[k] = pc

\* the stage that writes each intermediate value of the call
WrittenBy ==
    [address |-> "normalize", lat |-> "geocode", lng |-> "geocode",
     geocoder_calls |-> "geocode", geo_result |-> "geocode",
     entity_result |-> "resolve", canonical_id |-> "resolve",
     entity_confidence |-> "resolve", property_id |-> "generate_id",
     quality |-> "quality"]

\* C22: within one process_record call every step either starts the call at
\* normalize, moves from a stage to the next stage of the order normalize,
\* geocode, entity resolution, id generation, quality scoring, assemble,
\* returns the record from assemble, or leaves the stage it is in with the
\* failure value; so no stage runs twice or is taken up again, the geocoder is
\* asked at most once, and a value is written only by the step of its own stage.
C22_StageOrder ==
    [][pr' # pr =>
         /\ \/ pr.pc = "idle" /\ pr'.pc = "normalize"
            \/ /\ pr.pc \in Stages /\ pr'.pc \in Stages
               /\ StageIndex(pr'.pc) = StageIndex(pr.pc) + 1
            \/ /\ pr.pc = "assemble" /\ pr'.pc = "returned"
               /\ IsNone(pr'.raised) /\ ~IsNone(pr'.ret)
            \/ /\ pr.pc \in Stages /\ pr'.pc = "returned"
               /\ pr'.raised = Some(pr.pc) /\ IsNone(pr'.ret)
         /\ pr.pc # "idle" =>
                \A f \in DOMAIN WrittenBy :
                    pr'[f] # pr[f] => pr.pc = WrittenBy[f] /\ IsNone(pr'.raised)
         /\ Len(pr'.geocoder_calls) <= 1]_vars

\* a call has returned a record although its geocoder found nothing and its
\* resolution matched no candidate
C22_Witness ==
    /\ ReturnedRecord
    /\ Len(pr.geocoder_calls) = 1
    /\ IsNone(pr.geo_result)
    /\ ~IsNone(pr.entity_result)
    /\ Val(pr.entity_result).action = "keep_separate"

---------------------------------------------------------------------------
(* Properties of the quality score of a ProcessedRecord *)

\* C23: the uniqueness sub-score of a returned ProcessedRecord is 0.95 when
\* process_record ran entity resolution on a supplied non-empty candidate set,
\* and 1.0 when no candidate set was supplied.
C23_Uniqueness ==
    ReturnedRecord =>
        /\ CandidatesSupplied => Val(pr.ret).quality.uniqueness = Pct(95)
        /\ IsNone(pr.existing_candidates) =>
               Val(pr.ret).quality.uniqueness = Scale

---------------------------------------------------------------------------
(* Properties of the limit of import_region *)

PositiveLimit == ~IsNone(ir.limit) /\ Val(ir.limit) > 0

\* records the loop has pulled from the provider stream so far
Pulled == Len(ir.source) - Len(ir.stream)

\* C24: with a positive limit L the count of import_region never exceeds L,
\* and once the count has reached L the run is over: no further record is
\* pulled from the provider stream or handed to process_record, in dry-run
\* and in normal mode alike.
C24_Limit ==
    /\ [](PositiveLimit =>
              /\ ir.count <= Val(ir.limit)
              /\ ir.count = Val(ir.limit) => ir.pc = "returned")
    /\ [][(PositiveLimit /\ ir.count >= Val(ir.limit)) =>
              /\ ir'.stream = ir.stream
              /\ ir'.handed = ir.handed
              /\ ir'.count = ir.count
              /\ pr' = pr]_vars

\* a normal-mode run stopped at its limit after a failed and a processed
\* record, with a record left in the stream
C24_Witness ==
    /\ ir.pc = "returned"
    /\ ~ir.dry_run
    /\ ir.limit = Some(1)
    /\ ir.count = 1
    /\ ir.errors = 1
    /\ ir.stream # <<>>
    /\ Len(ir.handed) = 2

\* a dry run stopped at its limit with records left in the stream
C24_WitnessDryRun ==
    /\ ir.pc = "returned" /\ ir.dry_run
    /\ ir.limit = Some(2) /\ ir.count = 2 /\ Pulled = 2
    /\ ir.stream # <<>>

---------------------------------------------------------------------------
(* Properties of a parcel-id match *)

\* C25: for a candidate whose parcel id equals the input's, the confidence
\* of score_match is 1.0 when no other signal fires and is never below 0.88;
\* it is below the 0.90 auto-merge threshold only when the address signal and
\* a location signal of 0.80 fire too, and the verdict on it is then review.
C25_ParcelDiluted ==
    (~IsNone(sm_call) /\ ParcelFires(Val(sm_call))) =>
        LET c == Val(sm_call)
            confidence == c.result.confidence
        IN  /\ (~AddressFires(c) /\ LocationValue(c) = 0) => confidence = Scale
            /\ confidence >= Pct(88)
            /\ confidence < CONFIDENCE_AUTO_MERGE =>
                   /\ AddressFires(c)
                   /\ LocationValue(c) = Pct(80)
                   /\ ActionOf(confidence) = "review"

\* an exact parcel-id match with an address similarity between 0.85 and 0.90
\* and a location score of 0.80: the confidence is below 0.90
C25_Witness ==
    /\ ~IsNone(sm_call)
    /\ ParcelFires(Val(sm_call))
    /\ AddressFires(Val(sm_call))
    /\ AddressSim(Val(sm_call)) < Pct(90)
    /\ LocationValue(Val(sm_call)) = Pct(80)
    /\ Val(sm_call).result.confidence < CONFIDENCE_AUTO_MERGE
    /\ ActionOf(Val(sm_call).result.confidence) = "review"

---------------------------------------------------------------------------
(* Properties of the verdict of resolve_from_candidates *)

\* C26: in every result of resolve_from_candidates the action is
\* keep_separate iff matches is empty: every candidate that passes the > 0.30
\* filter has a confidence of at least 0.80, so a result with matches is
\* review or auto_merge and a keep_separate result has confidence 0.0.
C26_SeparateIffEmpty ==
    ~IsNone(rs_call) =>
        LET r == Val(cm_result)
        IN  /\ (r.action = "keep_separate") <=> (r.matches = <<>>)
            /\ \A i \in 1..Len(cm_candidates) :
                   cm_candidates[i].confidence >= Pct(80)
            /\ \A i \in 1..Len(r.matches) :
                   r.matches[i].confidence >= Pct(80)
            /\ r.matches # <<>> => r.action \in {"review", "auto_merge"}
            /\ r.action = "keep_separate" =>
                   r.confidence = 0 /\ IsNone(r.canonical_id)

\* a call whose best surviving candidate scores exactly 0.80, next to a
\* candidate that was filtered out
C26_Witness ==
    /\ ~IsNone(rs_call)
    /\ Val(cm_result).matches # <<>>
    /\ Val(cm_result).confidence = Pct(80)
    /\ Val(cm_result).action = "review"
    /\ Len(Val(cm_result).matches) < Len(Val(rs_call).candidates)

---------------------------------------------------------------------------
(* Properties of extract_property_data *)

\* the 8 required and the 8 optional fields of the completeness score
CompletenessFields ==
    {REQUIRED_FIELDS[k] : k \in 1..Len(REQUIRED_FIELDS)}
        \cup {OPTIONAL_FIELDS[k] : k \in 1..Len(OPTIONAL_FIELDS)}

\* C27: for each of the 8 required and 8 optional completeness fields, a
\* non-null value the raw payload carries for it is passed on by
\* extract_property_data, so a payload with all 16 fields is scored with
\* completeness 1.0.
C27_ExtractionCovers ==
    ~IsNone(xd) =>
        LET x == Val(xd)
        IN  /\ \A f \in CompletenessFields :
                   ~IsNone(Get(x.raw_data, f)) => ~IsNone(Get(x.result, f))
            /\ (\A f \in CompletenessFields : ~IsNone(Get(x.raw_data, f)))
                   => x.quality.completeness = Scale

\* the two accepted key names of a standard field, the first one first
AlternateKeys ==
    [zip_code |-> <<"zip", "zip_code">>, latitude |-> <<"lat", "latitude">>,
     longitude |-> <<"lng", "longitude">>]

\* C28: the standard fields zip_code, latitude and longitude take the
\* non-null value given under either of their two key names, the first name
\* (zip, lat, lng) when both are given; a value of 0 is a value.
C28_AlternateKeys ==
    ~IsNone(xd) =>
        LET x == Val(xd)
        IN  \A f \in DOMAIN AlternateKeys :
                LET first == Get(x.raw_data, AlternateKeys[f][1])
                    second == Get(x.raw_data, AlternateKeys[f][2])
                IN  Get(x.result, f) = IF ~IsNone(first) THEN first ELSE second

---------------------------------------------------------------------------
(* Properties of the coordinates of a ProcessedRecord *)

\* C29: a coordinate the raw record supplies is the coordinate of the
\* ProcessedRecord: a non-null raw.latitude is the record's latitude and a
\* non-null raw.longitude is the record's longitude, whatever the geocoder
\* returns, also when only one of the two was supplied.
C29_SuppliedCoordinateKept ==
    ReturnedRecord =>
        /\ ~IsNone(Val(pr.raw).latitude) =>
               Val(pr.ret).latitude = Val(pr.raw).latitude
        /\ ~IsNone(Val(pr.raw).longitude) =>
               Val(pr.ret).longitude = Val(pr.raw).longitude

---------------------------------------------------------------------------
(* Properties of freshness_hours *)

\* C30: the freshness_hours that _score_timeliness hands to the
\* DataQualityScore is a non-negative integer for every extraction
\* timestamp, one later than the current time included.
C30_FreshnessNonNegative ==
    tl # None =>
        \A k \in 1..Len(Val(tl)) :
            /\ Val(tl)[k].result.freshness_hours \in Int
            /\ Val(tl)[k].result.freshness_hours >= 0

====
